---------------------------- MODULE Spec2Model ----------------------------
(* Three-tier supply chain simulation (Tier-2 -> Tier-1 -> OEM -> customer) *)
(* of supply_chain_simulation.py: the SupplyChainSimulation object, its     *)
(* seeded random stream, the ForecastModule and the eight phases of the     *)
(* period loop of run_simulation, for two simulation instances.             *)
(*                                                                          *)
(* Numbers.  Quantities, days and counters are integers as in the code.     *)
(* Floats are fixed-point: a forecast entry and a Gaussian variate are kept *)
(* in halves (value * 2), -ln(1-u) and exp(-lam) in thousandths, a uniform  *)
(* variate u in quarters.  A result that the code computes by a float       *)
(* division is kept as the fraction [n, d] it divides.                      *)
(*                                                                          *)
(* Random stream.  random.Random(seed) is a fixed sequence of variates that *)
(* depends on the seed only; the generator's state is the position in it.   *)
(* Every call of rng.random / uniform / gauss / expovariate takes the next  *)
(* element.  A stream is periodic with period StreamLen and each element is *)
(* low (0) or high (1); the seed is the number whose binary digits are the  *)
(* elements of one period.                                                  *)
EXTENDS Integers, Sequences, FiniteSets, TLC

\* Number of periods of a valid run (config.num_periods).
MaxPeriods == 3
\* Period of the random stream: a seed is one of 2^StreamLen streams.
StreamLen == 4
\* Number of run_simulation calls the callers make in all.
MaxRuns == 2
\* Number of weeks of a call of simulation.simulate, and the longest
\* Tier2Queue a caller builds.
MaxWeeks == 3
\* Largest base stock, weekly capacity, weekly demand and order quantity of
\* simulation.py.
MaxQty == 3

Inst == {1, 2}

-----------------------------------------------------------------------------
(* Arithmetic helpers *)

Min(a, b) == IF a <= b THEN a ELSE b
Max(a, b) == IF a >= b THEN a ELSE b

RECURSIVE Pow2(_)
Pow2(n) == IF n <= 0 THEN 1 ELSE 2 * Pow2(n - 1)

RECURSIVE SumSeq(_)
SumSeq(q) == IF q = <<>> THEN 0 ELSE Head(q) + SumSeq(Tail(q))

RECURSIVE SumQty(_)
SumQty(q) == IF q = <<>> THEN 0 ELSE Head(q).qty + SumQty(Tail(q))

RECURSIVE SumRemaining(_)
SumRemaining(q) == IF q = <<>> THEN 0 ELSE Head(q).remaining + SumRemaining(Tail(q))

\* The first entry of the series in place of its largest.
MaxSeqFirst(q) == q[1]

RECURSIVE MaxSeq(_)
MaxSeq(q) == IF Len(q) = 1 THEN q[1] ELSE Max(Head(q), MaxSeq(Tail(q)))

\* [x] * n of Python: the empty list when n <= 0.
Repeat(x, n) == [k \in 1..Max(0, n) |-> x]

\* q[:n] of Python for n >= 0.
Take(q, n) == SubSeq(q, 1, Min(n, Len(q)))

\* math.ceil(n / d), d > 0.
CeilDiv(n, d) == -((-n) \div d)

\* round(n / d) of Python 3, d > 0: to the nearest integer, a tie to the even one.
RoundHalfEven(n, d) ==
  LET q == n \div d
      r == n - q * d
  IN IF 2 * r < d THEN q
     ELSE IF 2 * r > d THEN q + 1
     ELSE IF q % 2 = 0 THEN q ELSE q + 1

\* int(x) of Python for x = n / d, d > 0: truncation toward zero.
TruncDiv(n, d) == IF n >= 0 THEN n \div d ELSE -((-n) \div d)

-----------------------------------------------------------------------------
(* The seeded random stream *)

\* Element at position pos of the stream of seed: 0 (low) or 1 (high).
Raw(seed, pos) == (seed \div Pow2(pos % StreamLen)) % 2

\* Position after one more call.
Advance(pos) == (pos + 1) % StreamLen

\* rng.random() in quarters: low is 1/4, high is 3/4.
UniformQ(r) == 2 * r + 1

\* A standard normal variate in halves: low is -3/2, high is +1/2.
GaussH(r) == IF r = 0 THEN -3 ELSE 1

\* -ln(1 - u) in thousandths: u = 1/4 gives 0.288, u = 3/4 gives 1.386.
NegLogK(r) == IF r = 0 THEN 288 ELSE 1386

\* math.exp(-lam) in thousandths, for the rates lam = 1, 2 of the model.
ExpNegK(lam) == IF lam = 1 THEN 368 ELSE 135

\* _poisson(rng, lam): Knuth's method.  p is pn / pd; returns the count and
\* the position of the stream after the draws it consumed.
RECURSIVE PoissonLoop(_, _, _, _, _, _)
PoissonLoop(seed, pos, lam, k, pn, pd) ==
  IF pn * 1000 > ExpNegK(lam) * pd
  THEN PoissonLoop(seed, Advance(pos), lam, k + 1,
                   pn * UniformQ(Raw(seed, pos)), pd * 4)
  ELSE [value |-> k - 1, pos |-> pos]

Poisson(seed, pos, lam) ==
  IF lam <= 0 THEN [value |-> 0, pos |-> pos]
  ELSE PoissonLoop(seed, pos, lam, 0, 1, 1)

-----------------------------------------------------------------------------
(* Configurations: SimulationConfig with its embedded ForecastSharingConfig.  *)
(* t1_rop_days and t1_order_up_to_days are in halves, t2_downtime_probability *)
(* in quarters, t1_forecast_weight in halves (2 is the weight 1.0).           *)

BaseForecastSharing ==
  [forecast_horizon |-> 2,
   forecast_update_frequency |-> 1,
   forecast_accuracy_model |-> "perfect",
   forecast_error_std |-> 2,
   t1_forecast_weight |-> 1]

BaseConfig ==
  [num_periods |-> MaxPeriods,
   seed |-> 0,
   avg_daily_demand |-> 1,
   oem_order_cycle_days |-> 1,
   t1_initial_inventory |-> 3,
   oem_initial_inventory |-> 2,
   t1_rop_days |-> 3,
   t1_order_up_to_days |-> 7,
   t1_review_period_days |-> 1,
   t2_daily_mean_capacity |-> 2,
   t2_daily_capacity_sd |-> 1,
   t2_downtime_probability |-> 2,
   t2_to_t1_lead_time_base |-> 0,
   t2_to_t1_lead_time_exp_mean |-> 1,
   t1_to_oem_lead_time_base |-> 0,
   t1_to_oem_lead_time_uniform_max |-> 2,
   otif_target_days |-> 2,
   forecast_sharing |-> BaseForecastSharing]

Seeds == 0..(Pow2(StreamLen) - 1)

\* The valid ForecastSharingConfig values of the model.
ValidForecastSharing ==
  {[BaseForecastSharing EXCEPT !.forecast_update_frequency = f,
                               !.forecast_accuracy_model = m,
                               !.t1_forecast_weight = w] :
     f \in {1, 2}, m \in {"perfect", "noise"}, w \in {1, 2}}
  \cup {[BaseForecastSharing EXCEPT !.forecast_horizon = 1,
                                    !.forecast_accuracy_model = m] :
          m \in {"perfect", "noise"}}

\* forecast_horizon < 1 and forecast_update_frequency < 1.
InvalidForecastSharing ==
  {[BaseForecastSharing EXCEPT !.forecast_horizon = 0],
   [BaseForecastSharing EXCEPT !.forecast_update_frequency = 0,
                               !.forecast_accuracy_model = "noise"]}

\* Valid configurations, the seed left at 0.
ValidMain ==
  {[BaseConfig EXCEPT !.oem_order_cycle_days = oc,
                      !.t1_initial_inventory = ti,
                      !.forecast_sharing = fs] :
     oc \in {1, 2}, ti \in {0, 3}, fs \in ValidForecastSharing}
  \cup {[BaseConfig EXCEPT !.oem_initial_inventory = 0],
        [BaseConfig EXCEPT !.t2_daily_mean_capacity = 3],
        [BaseConfig EXCEPT !.t1_review_period_days = 2],
        [BaseConfig EXCEPT !.t1_to_oem_lead_time_uniform_max = 0],
        [BaseConfig EXCEPT !.oem_order_cycle_days = 2,
                           !.forecast_sharing =
                              [BaseForecastSharing EXCEPT !.forecast_horizon = 1,
                                                          !.t1_forecast_weight = 2]]}

\* Invalid configurations: one field of BaseConfig out of its range.
InvalidMain ==
  {[BaseConfig EXCEPT !.num_periods = 0],
   [BaseConfig EXCEPT !.avg_daily_demand = -1],
   [BaseConfig EXCEPT !.oem_order_cycle_days = 0],
   [BaseConfig EXCEPT !.t1_review_period_days = 0],
   [BaseConfig EXCEPT !.t2_daily_mean_capacity = -1],
   [BaseConfig EXCEPT !.t2_daily_capacity_sd = -1]}
  \cup {[BaseConfig EXCEPT !.forecast_sharing = fs] : fs \in InvalidForecastSharing}

\* A valid configuration with a higher demand rate and a longer Tier-2 lead time.
HighDemandConfig ==
  [BaseConfig EXCEPT !.avg_daily_demand = 2,
                     !.t1_initial_inventory = 5,
                     !.t1_order_up_to_days = 5,
                     !.t2_to_t1_lead_time_exp_mean = 2]

Configs ==
  {[c EXCEPT !.seed = sd] : c \in ValidMain \cup InvalidMain, sd \in Seeds}

\* The error taxonomy's "invalid configuration".
ValidConfig(c) ==
  /\ c.num_periods >= 1
  /\ c.avg_daily_demand >= 0
  /\ c.oem_order_cycle_days >= 1
  /\ c.t1_review_period_days >= 1
  /\ c.t2_daily_mean_capacity >= 0
  /\ c.t2_daily_capacity_sd >= 0
  /\ c.forecast_sharing.forecast_horizon >= 1
  /\ c.forecast_sharing.forecast_update_frequency >= 1

Scenarios == {"baseline", "forecast_sharing"}

-----------------------------------------------------------------------------
(* State *)

VARIABLES
  sim,      \* sim[i]: the fields of SupplyChainSimulation instance i
  pc,       \* pc[i]: where instance i is in run_simulation
  results,  \* results[i]: the SimulationResults returned to i's callers, in order
  runs,     \* number of run_simulation calls made so far, over both instances
  hist,     \* hist[i]: history of i's current run (not program state)
  comparison, \* the call of compare_scenarios: not made, returned or raised
  mode,     \* how the caller drives its instances: "sequential" or "interleaved"
  fm,       \* a ForecastModule constructed and used on its own
  weekly    \* simulation.py: a SupplyNode, a Tier2Queue, or a call of simulate

vars == <<sim, pc, results, runs, hist, comparison, mode, fm, weekly>>

Phases ==
  {"arrivals", "demand", "forecast", "oem_order", "fulfill", "t1_order",
   "t2_production", "metrics"}

EmptyHist ==
  [demand_log |-> <<>>,     \* [day, pos, demand] of every customer demand draw
   order_log |-> <<>>,      \* [day, size] of every OEM order draw
   shipped_qty |-> 0,       \* units put into t1_shipments
   shipped |-> <<>>,        \* every shipment put into t1_shipments, with its day
   produced_qty |-> 0,      \* units put into t2_shipments
   oem_received |-> 0,      \* units added to oem_inventory by arrivals
   t1_received |-> 0,       \* units added to t1_inventory by arrivals
   delivered |-> <<>>,      \* [leg, arrival_day, day, qty] of every shipment removed
   targets |-> <<>>,        \* order-up-to target of every Tier-1 ordering step
   pass |-> <<>>,           \* the open orders before and after the last fulfilment loop
   forecast_log |-> <<>>,   \* every maybe_update call: day, cache before, vector returned, stream
   trace |-> <<>>,          \* the instance's state at the end of every period
   live |-> {},             \* the returned results holding the instance's current list objects
   capacity_log |-> <<>>]   \* [day, downtime, capacity, backlog, produced] of every production step

-----------------------------------------------------------------------------
(* ForecastModule *)

\* ForecastModule.__init__: the initial cached forecast.
ForecastInit(c) ==
  Repeat(2 * c.avg_daily_demand, c.forecast_sharing.forecast_horizon)

\* _generate_forecast appending the noisy value as it is, without the floor.
RECURSIVE GenerateForecastNoFloor(_, _, _, _)
GenerateForecastNoFloor(c, rng, k, forecast) ==
  IF k >= c.forecast_sharing.forecast_horizon
  THEN [forecast |-> forecast, rng |-> rng]
  ELSE IF c.forecast_sharing.forecast_accuracy_model = "perfect"
  THEN GenerateForecastNoFloor(c, rng, k + 1, Append(forecast, 2 * c.avg_daily_demand))
  ELSE LET noisy == 2 * c.avg_daily_demand
                    + c.forecast_sharing.forecast_error_std * GaussH(Raw(rng.seed, rng.pos))
       IN GenerateForecastNoFloor(c, [rng EXCEPT !.pos = Advance(rng.pos)], k + 1,
                                  Append(forecast, noisy))

\* ForecastModule._generate_forecast: returns the vector and the position of
\* the shared stream after the draws it consumed.
RECURSIVE GenerateForecast(_, _, _, _)
GenerateForecast(c, rng, k, forecast) ==
  IF k >= c.forecast_sharing.forecast_horizon
  THEN [forecast |-> forecast, rng |-> rng]
  ELSE IF c.forecast_sharing.forecast_accuracy_model = "perfect"
  THEN GenerateForecast(c, rng, k + 1, Append(forecast, 2 * c.avg_daily_demand))
  ELSE LET noisy == 2 * c.avg_daily_demand
                    + c.forecast_sharing.forecast_error_std * GaussH(Raw(rng.seed, rng.pos))
       IN GenerateForecast(c, [rng EXCEPT !.pos = Advance(rng.pos)], k + 1,
                           Append(forecast, Max(0, noisy)))

\* day % forecast_update_frequency raises ZeroDivisionError.
MaybeUpdateRaises(s) ==
  s.config.forecast_sharing.forecast_update_frequency = 0

\* maybe_update regenerating the forecast on every call.
MaybeUpdateEveryCall(s) ==
  LET g == GenerateForecast(s.config, s.rng, 0, <<>>)
  IN [s EXCEPT !.current_forecast = g.forecast, !.rng = g.rng,
               !.maybe_update_calls = @ + 1]

\* ForecastModule.maybe_update(day), called with the current period.
\* maybe_update_calls counts the calls (it is no field of the code).
MaybeUpdate(s) ==
  IF s.current_period % s.config.forecast_sharing.forecast_update_frequency = 0
  THEN LET g == GenerateForecast(s.config, s.rng, 0, <<>>)
       IN [s EXCEPT !.current_forecast = g.forecast, !.rng = g.rng,
                    !.maybe_update_calls = @ + 1]
  ELSE [s EXCEPT !.maybe_update_calls = @ + 1]

-----------------------------------------------------------------------------
(* SupplyChainSimulation *)

\* The generator created in __init__ only: reset() keeps the one it finds.
ResetRngOnlyInInit(s) ==
  IF "rng" \in DOMAIN s THEN s.rng ELSE [seed |-> s.config.seed, pos |-> 0]

\* self.rng = random.Random(self.config.seed)
ResetRng(s) == [seed |-> s.config.seed, pos |-> 0]

\* reset() leaving the Tier-2 backlog as it finds it.
ResetKeepsT2Backlog(s) ==
  [config |-> s.config,
   scenario_name |-> s.scenario_name,
   use_forecast |-> s.use_forecast,
   current_period |-> 0,
   rng |-> ResetRng(s),
   t1_inventory |-> s.config.t1_initial_inventory,
   oem_inventory |-> s.config.oem_initial_inventory,
   t1_shipments |-> <<>>,
   t2_shipments |-> <<>>,
   oem_orders |-> <<>>,
   t2_backlog |-> IF "t2_backlog" \in DOMAIN s THEN s.t2_backlog ELSE 0,
   lead_times |-> <<>>,
   on_time_shipments |-> 0,
   total_shipments |-> 0,
   wip_levels |-> <<>>,
   backlog_levels |-> <<>>,
   inventory_levels |-> <<>>,
   total_customer_demand |-> 0,
   total_customer_fulfilled |-> 0,
   oem_order_history |-> <<>>,
   t1_order_history |-> <<>>,
   t1_rop |-> TruncDiv(s.config.t1_rop_days * s.config.avg_daily_demand, 2),
   t1_order_up_to |-> TruncDiv(s.config.t1_order_up_to_days * s.config.avg_daily_demand, 2),
   current_forecast |-> ForecastInit(s.config),
   maybe_update_calls |-> 0,
   active_forecast |-> <<>>]

\* reset(): every field but config, scenario_name and use_forecast.
Reset(s) ==
  [config |-> s.config,
   scenario_name |-> s.scenario_name,
   use_forecast |-> s.use_forecast,
   current_period |-> 0,
   rng |-> ResetRng(s),
   t1_inventory |-> s.config.t1_initial_inventory,
   oem_inventory |-> s.config.oem_initial_inventory,
   t1_shipments |-> <<>>,
   t2_shipments |-> <<>>,
   oem_orders |-> <<>>,
   t2_backlog |-> 0,
   lead_times |-> <<>>,
   on_time_shipments |-> 0,
   total_shipments |-> 0,
   wip_levels |-> <<>>,
   backlog_levels |-> <<>>,
   inventory_levels |-> <<>>,
   total_customer_demand |-> 0,
   total_customer_fulfilled |-> 0,
   oem_order_history |-> <<>>,
   t1_order_history |-> <<>>,
   t1_rop |-> TruncDiv(s.config.t1_rop_days * s.config.avg_daily_demand, 2),
   t1_order_up_to |-> TruncDiv(s.config.t1_order_up_to_days * s.config.avg_daily_demand, 2),
   current_forecast |-> ForecastInit(s.config),
   maybe_update_calls |-> 0,
   active_forecast |-> <<>>]

\* __init__(config, scenario_name)
NewSimulation(c, name) ==
  Reset([config |-> c, scenario_name |-> name,
         use_forecast |-> (name = "forecast_sharing")])

\* _process_arrivals releasing only the shipments whose arrival_day has passed.
ProcessArrivalsDropsDue(s) ==
  LET Arrived(x) == x.arrival_day < s.current_period
      InTransit(x) == x.arrival_day > s.current_period
  IN [s EXCEPT
        !.oem_inventory = @ + SumQty(SelectSeq(s.t1_shipments, Arrived)),
        !.t1_shipments = SelectSeq(s.t1_shipments, InTransit),
        !.t1_inventory = @ + SumQty(SelectSeq(s.t2_shipments, Arrived)),
        !.t2_shipments = SelectSeq(s.t2_shipments, InTransit)]

\* _process_arrivals
ProcessArrivals(s) ==
  LET Arrived(x) == x.arrival_day <= s.current_period
      InTransit(x) == x.arrival_day > s.current_period
  IN [s EXCEPT
        !.oem_inventory = @ + SumQty(SelectSeq(s.t1_shipments, Arrived)),
        !.t1_shipments = SelectSeq(s.t1_shipments, InTransit),
        !.t1_inventory = @ + SumQty(SelectSeq(s.t2_shipments, Arrived)),
        !.t2_shipments = SelectSeq(s.t2_shipments, InTransit)]

\* _process_oem_demand with the whole demand taken from stock (no min).
ProcessOemDemandNoMin(s) ==
  LET d == Poisson(s.rng.seed, s.rng.pos, s.config.avg_daily_demand)
  IN [s EXCEPT
        !.rng.pos = d.pos,
        !.total_customer_demand = @ + d.value,
        !.oem_inventory = @ - d.value,
        !.total_customer_fulfilled = @ + d.value]

\* _process_oem_demand with the two counters' increments swapped.
ProcessOemDemandSwapped(s) ==
  LET d == Poisson(s.rng.seed, s.rng.pos, s.config.avg_daily_demand)
      fulfilled == Min(d.value, s.oem_inventory)
  IN [s EXCEPT
        !.rng.pos = d.pos,
        !.total_customer_demand = @ + fulfilled,
        !.oem_inventory = @ - fulfilled,
        !.total_customer_fulfilled = @ + d.value]

\* _process_oem_demand serving the demand left unmet earlier as well.
ProcessOemDemandOwes(s) ==
  LET d == Poisson(s.rng.seed, s.rng.pos, s.config.avg_daily_demand)
      owed == s.total_customer_demand - s.total_customer_fulfilled
      fulfilled == Min(d.value + owed, s.oem_inventory)
  IN [s EXCEPT
        !.rng.pos = d.pos,
        !.total_customer_demand = @ + d.value,
        !.oem_inventory = @ - fulfilled,
        !.total_customer_fulfilled = @ + fulfilled]

\* _process_oem_demand
ProcessOemDemand(s) ==
  LET d == Poisson(s.rng.seed, s.rng.pos, s.config.avg_daily_demand)
      fulfilled == Min(d.value, s.oem_inventory)
  IN [s EXCEPT
        !.rng.pos = d.pos,
        !.total_customer_demand = @ + d.value,
        !.oem_inventory = @ - fulfilled,
        !.total_customer_fulfilled = @ + fulfilled]

\* _update_forecast without the use_forecast test.
UpdateForecastAlways(s) ==
  LET m == MaybeUpdate(s)
  IN [m EXCEPT !.active_forecast = m.current_forecast]

\* _update_forecast
UpdateForecastRaises(s) == s.use_forecast /\ MaybeUpdateRaises(s)

UpdateForecast(s) ==
  IF s.use_forecast
  THEN LET m == MaybeUpdate(s)
       IN [m EXCEPT !.active_forecast = m.current_forecast]
  ELSE s

\* _place_oem_order: current_period % oem_order_cycle_days raises ZeroDivisionError.
PlaceOemOrderRaises(s) == s.config.oem_order_cycle_days = 0

PlaceOemOrder(s) ==
  IF s.current_period % s.config.oem_order_cycle_days # 0 THEN s
  ELSE LET o == Poisson(s.rng.seed, s.rng.pos,
                        s.config.avg_daily_demand * s.config.oem_order_cycle_days)
       IN [s EXCEPT
             !.rng.pos = o.pos,
             !.oem_order_history = Append(@, o.value),
             !.oem_orders =
                IF o.value > 0
                THEN Append(@, [order_day |-> s.current_period, remaining |-> o.value])
                ELSE @]

\* One iteration of the loop that closes the order it ships against, whatever
\* the quantity shipped.
FulfillOneDropsShortfall(s, k) ==
  LET order == s.oem_orders[k]
  IN IF order.remaining = 0 \/ s.t1_inventory = 0 THEN s
     ELSE
       LET qty == Min(order.remaining, s.t1_inventory)
           lead4 == 4 * s.config.t1_to_oem_lead_time_base
                    + s.config.t1_to_oem_lead_time_uniform_max
                      * UniformQ(Raw(s.rng.seed, s.rng.pos))
           arrival_day == s.current_period + CeilDiv(lead4, 4)
           lt == arrival_day - order.order_day
       IN [s EXCEPT
             !.t1_inventory = @ - qty,
             !.oem_orders[k].remaining = 0,
             !.rng.pos = Advance(@),
             !.t1_shipments = Append(@, [arrival_day |-> arrival_day, qty |-> qty,
                                         order_day |-> order.order_day]),
             !.lead_times = Append(@, lt),
             !.total_shipments = @ + 1,
             !.on_time_shipments =
                IF lt <= s.config.otif_target_days THEN @ + 1 ELSE @]

\* One iteration of the loop of _fulfill_oem_orders, for the order at index k.
\* One pass of the fulfilment loop counting a shipment on time only when its
\* lead time is strictly below otif_target_days.
FulfillOneOnTimeStrict(s, k) ==
  LET order == s.oem_orders[k]
  IN IF order.remaining = 0 \/ s.t1_inventory = 0 THEN s
     ELSE
       LET qty == Min(order.remaining, s.t1_inventory)
           lead4 == 4 * s.config.t1_to_oem_lead_time_base
                    + s.config.t1_to_oem_lead_time_uniform_max
                      * UniformQ(Raw(s.rng.seed, s.rng.pos))
           arrival_day == s.current_period + CeilDiv(lead4, 4)
           lt == arrival_day - order.order_day
       IN [s EXCEPT
             !.t1_inventory = @ - qty,
             !.oem_orders[k].remaining = @ - qty,
             !.rng.pos = Advance(@),
             !.t1_shipments = Append(@, [arrival_day |-> arrival_day, qty |-> qty,
                                         order_day |-> order.order_day]),
             !.lead_times = Append(@, lt),
             !.total_shipments = @ + 1,
             !.on_time_shipments =
                IF lt < s.config.otif_target_days THEN @ + 1 ELSE @]

FulfillOne(s, k) ==
  LET order == s.oem_orders[k]
  IN IF order.remaining = 0 \/ s.t1_inventory = 0 THEN s
     ELSE
       LET qty == Min(order.remaining, s.t1_inventory)
           \* t1_to_oem_lead_time_base + rng.uniform(0, t1_to_oem_lead_time_uniform_max)
           lead4 == 4 * s.config.t1_to_oem_lead_time_base
                    + s.config.t1_to_oem_lead_time_uniform_max
                      * UniformQ(Raw(s.rng.seed, s.rng.pos))
           arrival_day == s.current_period + CeilDiv(lead4, 4)
           lt == arrival_day - order.order_day
       IN [s EXCEPT
             !.t1_inventory = @ - qty,
             !.oem_orders[k].remaining = @ - qty,
             !.rng.pos = Advance(@),
             !.t1_shipments = Append(@, [arrival_day |-> arrival_day, qty |-> qty,
                                         order_day |-> order.order_day]),
             !.lead_times = Append(@, lt),
             !.total_shipments = @ + 1,
             !.on_time_shipments =
                IF lt <= s.config.otif_target_days THEN @ + 1 ELSE @]

\* The loop taken over the orders from the newest to the oldest.
RECURSIVE FulfillLoopNewestFirst(_, _)
FulfillLoopNewestFirst(s, k) ==
  IF k > Len(s.oem_orders) THEN s
  ELSE FulfillLoopNewestFirst(FulfillOne(s, Len(s.oem_orders) + 1 - k), k + 1)

\* for order in self.oem_orders: the orders in list order, from index k on.
RECURSIVE FulfillLoop(_, _)
FulfillLoop(s, k) ==
  IF k > Len(s.oem_orders) THEN s ELSE FulfillLoop(FulfillOne(s, k), k + 1)

\* The closing filter of _fulfill_oem_orders.
OpenOrders(orders) ==
  LET Open(o) == o.remaining > 0 IN SelectSeq(orders, Open)

\* _fulfill_oem_orders
\* _fulfill_oem_orders without the final rebuild of self.oem_orders.
FulfillOemOrdersKeepsServed(s) == FulfillLoop(s, 1)

FulfillOemOrders(s) ==
  LET f == FulfillLoop(s, 1)
  IN [f EXCEPT !.oem_orders = OpenOrders(f.oem_orders)]

\* The inventory position of _place_t1_order.
InventoryPosition(s) ==
  s.t1_inventory + SumQty(s.t2_shipments) - SumRemaining(s.oem_orders)

\* The order-up-to target of _place_t1_order; the forecast is in halves and the
\* weight in halves, so the blend is a number of quarters.
TargetOrderUpTo(s) ==
  IF s.use_forecast /\ s.active_forecast # <<>>
  THEN LET cycle_days == Max(1, s.config.oem_order_cycle_days)
           expected2 == SumSeq(Take(s.active_forecast, cycle_days))
           w == s.config.forecast_sharing.t1_forecast_weight
           blended4 == (2 - w) * (2 * s.config.avg_daily_demand * cycle_days)
                       + w * expected2
       IN s.t1_order_up_to + RoundHalfEven(Max(0, blended4), 4)
  ELSE s.t1_order_up_to

\* _place_t1_order: current_period % t1_review_period_days raises ZeroDivisionError.
PlaceT1OrderRaises(s) == s.config.t1_review_period_days = 0

\* _place_t1_order ordering only when the position is strictly below t1_rop.
PlaceT1OrderStrictlyBelow(s) ==
  IF s.current_period % s.config.t1_review_period_days # 0 THEN s
  ELSE LET inventory_position == InventoryPosition(s)
           order_qty == IF inventory_position < s.t1_rop
                        THEN Max(0, TargetOrderUpTo(s) - inventory_position)
                        ELSE 0
       IN [s EXCEPT
             !.t2_backlog = @ + order_qty,
             !.t1_order_history = Append(@, order_qty)]

PlaceT1Order(s) ==
  IF s.current_period % s.config.t1_review_period_days # 0 THEN s
  ELSE LET inventory_position == InventoryPosition(s)
           order_qty == IF inventory_position <= s.t1_rop
                        THEN Max(0, TargetOrderUpTo(s) - inventory_position)
                        ELSE 0
       IN [s EXCEPT
             !.t2_backlog = @ + order_qty,
             !.t1_order_history = Append(@, order_qty)]

\* The capacity draw of _process_t2_production: the downtime trial, then the
\* rounded Gaussian floored at 0.  Returns the capacity and the stream position.
DailyCapacity(s) ==
  LET p1 == Advance(s.rng.pos)
  IN IF UniformQ(Raw(s.rng.seed, s.rng.pos)) < s.config.t2_downtime_probability
     THEN [value |-> 0, pos |-> p1]
     ELSE [value |-> Max(0, RoundHalfEven(
                              2 * s.config.t2_daily_mean_capacity
                              + s.config.t2_daily_capacity_sd * GaussH(Raw(s.rng.seed, p1)),
                              2)),
           pos |-> Advance(p1)]

\* _process_t2_production cancelling the backlog it could not produce.
ProcessT2ProductionDropsExcess(s) ==
  LET cap == DailyCapacity(s)
      produced == Min(s.t2_backlog, cap.value)
      leadK == 1000 * s.config.t2_to_t1_lead_time_base
               + s.config.t2_to_t1_lead_time_exp_mean * NegLogK(Raw(s.rng.seed, cap.pos))
      arrival_day == s.current_period + CeilDiv(leadK, 1000)
  IN IF produced > 0
     THEN [s EXCEPT
             !.rng.pos = Advance(cap.pos),
             !.t2_backlog = 0,
             !.t2_shipments = Append(@, [arrival_day |-> arrival_day, qty |-> produced])]
     ELSE [s EXCEPT !.rng.pos = cap.pos]

\* _process_t2_production shipping the whole capacity draw.
ProcessT2ProductionNoMin(s) ==
  LET cap == DailyCapacity(s)
      produced == cap.value
      leadK == 1000 * s.config.t2_to_t1_lead_time_base
               + s.config.t2_to_t1_lead_time_exp_mean * NegLogK(Raw(s.rng.seed, cap.pos))
      arrival_day == s.current_period + CeilDiv(leadK, 1000)
  IN IF produced > 0
     THEN [s EXCEPT
             !.rng.pos = Advance(cap.pos),
             !.t2_backlog = @ - produced,
             !.t2_shipments = Append(@, [arrival_day |-> arrival_day, qty |-> produced])]
     ELSE [s EXCEPT !.rng.pos = cap.pos]

\* _process_t2_production
ProcessT2Production(s) ==
  LET cap == DailyCapacity(s)
      produced == Min(s.t2_backlog, cap.value)
      \* t2_to_t1_lead_time_base + rng.expovariate(1 / t2_to_t1_lead_time_exp_mean)
      leadK == 1000 * s.config.t2_to_t1_lead_time_base
               + s.config.t2_to_t1_lead_time_exp_mean * NegLogK(Raw(s.rng.seed, cap.pos))
      arrival_day == s.current_period + CeilDiv(leadK, 1000)
  IN IF produced > 0
     THEN [s EXCEPT
             !.rng.pos = Advance(cap.pos),
             !.t2_backlog = @ - produced,
             !.t2_shipments = Append(@, [arrival_day |-> arrival_day, qty |-> produced])]
     ELSE [s EXCEPT !.rng.pos = cap.pos]

\* _track_metrics
TrackMetrics(s) ==
  [s EXCEPT
     !.wip_levels = Append(@, s.t1_inventory + SumQty(s.t2_shipments)),
     !.backlog_levels = Append(@, SumRemaining(s.oem_orders)),
     !.inventory_levels = Append(@, s.t1_inventory)]

\* sum(xs) / len(xs) if xs else 0.0, as a fraction.
\* sum(xs) / len(xs) taken whatever the length is.
MeanOfUnguarded(xs) == [n |-> SumSeq(xs), d |-> Len(xs)]

MeanOf(xs) ==
  IF xs # <<>> THEN [n |-> SumSeq(xs), d |-> Len(xs)] ELSE [n |-> 0, d |-> 1]

RECURSIVE SumSquares(_)
SumSquares(q) == IF q = <<>> THEN 0 ELSE Head(q) * Head(q) + SumSquares(Tail(q))

\* The population variance of xs as a fraction: (len * sum(x^2) - sum(x)^2) / len^2.
PVariance(xs) ==
  [n |-> Len(xs) * SumSquares(xs) - SumSeq(xs) * SumSeq(xs), d |-> Len(xs) * Len(xs)]

\* pstdev(xs) if len(xs) > 1 else 0.0, squared.
PStdevSq(xs) == IF Len(xs) > 1 THEN PVariance(xs) ELSE [n |-> 0, d |-> 1]

\* The ratio t1_order_std / oem_order_std taken whatever the denominator is.
BullwhipSqUnguarded(t1_var, oem_var) ==
  [n |-> t1_var.n * oem_var.d, d |-> t1_var.d * oem_var.n]

\* (t1_order_std / oem_order_std) if oem_order_std > 0 else 0.0, squared.
BullwhipSq(t1_var, oem_var) ==
  IF oem_var.n > 0
  THEN [n |-> t1_var.n * oem_var.d, d |-> t1_var.d * oem_var.n]
  ELSE [n |-> 0, d |-> 1]

\* _calculate_results.  lead_time_std and bullwhip_effect are kept squared.
CalculateResults(s) ==
  LET oem_var == PStdevSq(s.oem_order_history)
      t1_var == PStdevSq(s.t1_order_history)
  IN [scenario_name |-> s.scenario_name,
      mean_lead_time |-> MeanOf(s.lead_times),
      lead_time_std_sq |->
        IF s.lead_times # <<>> THEN PVariance(s.lead_times) ELSE [n |-> 0, d |-> 1],
      worst_case_lead_time |-> IF s.lead_times # <<>> THEN MaxSeq(s.lead_times) ELSE 0,
      mean_wip |-> MeanOf(s.wip_levels),
      mean_backlog |-> MeanOf(s.backlog_levels),
      otif_percentage |->
        IF s.total_shipments # 0
        THEN [n |-> s.on_time_shipments * 100, d |-> s.total_shipments]
        ELSE [n |-> 0, d |-> 1],
      fill_rate |->
        IF s.total_customer_demand # 0
        THEN [n |-> s.total_customer_fulfilled, d |-> s.total_customer_demand]
        ELSE [n |-> 0, d |-> 1],
      bullwhip_sq |-> BullwhipSq(t1_var, oem_var),
      average_inventory_level |-> MeanOf(s.inventory_levels),
      lead_times |-> s.lead_times,
      wip_levels |-> s.wip_levels,
      backlog_levels |-> s.backlog_levels]

-----------------------------------------------------------------------------
(* Initial states: two instances constructed by their callers.  Either both  *)
(* from one config (run_baseline and SupplyChainSimulation(config), or the   *)
(* two runs of compare_scenarios), or two baseline instances whose configs   *)
(* differ in the embedded ForecastSharingConfig only.                        *)

\* A ForecastSharingConfig that differs from fs in every field the model varies.
OtherForecastSharing(fs) ==
  [fs EXCEPT
     !.forecast_horizon = IF @ = 2 THEN 1 ELSE 2,
     !.forecast_update_frequency = IF @ = 1 THEN 2 ELSE 1,
     !.forecast_accuracy_model = IF @ = "noise" THEN "perfect" ELSE "noise",
     !.t1_forecast_weight = IF @ = 2 THEN 1 ELSE 2]

InstancePairs ==
  {<<NewSimulation(c, "baseline"), NewSimulation(c, "baseline")>> :
     c \in {x \in Configs : x.forecast_sharing = BaseForecastSharing}}
  \cup
  {<<NewSimulation(c, n), NewSimulation(c, "forecast_sharing")>> :
     c \in Configs, n \in Scenarios}
  \cup
  {<<NewSimulation(c, "baseline"),
     NewSimulation([c EXCEPT !.forecast_sharing = OtherForecastSharing(@)], "baseline")>> :
     c \in Configs}
  \cup
  {<<NewSimulation(c, n),
     NewSimulation([c EXCEPT !.t2_daily_mean_capacity = @ + 1], n)>> :
     c \in {x \in Configs : ValidConfig(x) /\ x.forecast_sharing = BaseForecastSharing}
            \cup {[HighDemandConfig EXCEPT !.seed = sd] : sd \in Seeds},
     n \in Scenarios}
  \cup
  {<<NewSimulation([c EXCEPT !.num_periods = 0], "baseline"), NewSimulation(c, "baseline")>> :
     c \in {[BaseConfig EXCEPT !.t1_initial_inventory = 0, !.seed = sd] : sd \in Seeds}}

Init ==
  /\ sim \in InstancePairs
  /\ pc = [i \in Inst |-> "ready"]
  /\ results = [i \in Inst |-> <<>>]
  /\ runs = 0
  /\ hist = [i \in Inst |-> EmptyHist]
  /\ comparison = [status |-> "none"]
  /\ mode = "sequential"
  /\ fm = [stage |-> "none"]
  /\ weekly = [kind |-> "none"]

-----------------------------------------------------------------------------
(* Actions.  The program is single-threaded and run_simulation has no        *)
(* suspension point: an instance takes a step only while no other instance   *)
(* is inside run_simulation.  The callers use their instances in the order   *)
(* they construct them: an instance is first run once the instances before   *)
(* it have returned or raised.                                               *)

Running(i) == pc[i] \in Phases \cup {"calc"}

Scheduled(i) == mode = "interleaved" \/ \A j \in Inst \ {i} : ~Running(j)

InTurn(i) == mode = "interleaved" \/ \A j \in Inst : j < i => pc[j] \in {"returned", "raised"}

\* What the callers keep of an instance at the end of a period.
Snapshot(s) ==
  [current_period |-> s.current_period,
   rng |-> s.rng,
   t1_inventory |-> s.t1_inventory,
   oem_inventory |-> s.oem_inventory,
   t1_shipments |-> s.t1_shipments,
   t2_shipments |-> s.t2_shipments,
   oem_orders |-> s.oem_orders,
   t2_backlog |-> s.t2_backlog,
   lead_times |-> s.lead_times,
   on_time_shipments |-> s.on_time_shipments,
   total_shipments |-> s.total_shipments,
   wip_levels |-> s.wip_levels,
   backlog_levels |-> s.backlog_levels,
   inventory_levels |-> s.inventory_levels,
   total_customer_demand |-> s.total_customer_demand,
   total_customer_fulfilled |-> s.total_customer_fulfilled,
   oem_order_history |-> s.oem_order_history,
   t1_order_history |-> s.t1_order_history,
   active_forecast |-> s.active_forecast]

\* Instance i moves to state s and position p, and its random stream is the
\* stream of every instance.
StepSharedStream(i, s, p, h) ==
  /\ sim' = [j \in Inst |-> IF j = i THEN s ELSE [sim[j] EXCEPT !.rng = s.rng]]
  /\ pc' = [pc EXCEPT ![i] = p]
  /\ hist' = [hist EXCEPT ![i] = h]
  /\ UNCHANGED <<results, runs, comparison, mode, fm, weekly>>

\* SimulationResults(lead_times=self.lead_times, wip_levels=self.wip_levels,
\* backlog_levels=self.backlog_levels): the results numbered in live hold the
\* list objects of the instance, so they read what the instance s holds now.
Aliased(rs, live, s) ==
  [k \in 1..Len(rs) |->
     IF k \in live
     THEN [rs[k] EXCEPT !.lead_times = s.lead_times,
                        !.wip_levels = s.wip_levels,
                        !.backlog_levels = s.backlog_levels]
     ELSE rs[k]]

\* Instance i moves to state s and position p; its history becomes h.
Step(i, s, p, h) ==
  /\ sim' = [sim EXCEPT ![i] = s]
  /\ pc' = [pc EXCEPT ![i] = p]
  /\ hist' = [hist EXCEPT ![i] = h]
  /\ results' = [results EXCEPT ![i] = Aliased(@, h.live, s)]
  /\ UNCHANGED <<runs, comparison, mode, fm, weekly>>

\* A phase of the period loop raises: the exception leaves run_simulation.
Raise(i) ==
  /\ pc' = [pc EXCEPT ![i] = "raised"]
  /\ UNCHANGED <<sim, results, runs, hist, comparison, mode, fm, weekly>>

\* run_simulation is called: the head of "for day in range(num_periods)".
RunSimulation(i) ==
  /\ pc[i] = "ready"
  /\ Scheduled(i)
  /\ InTurn(i)
  /\ runs < MaxRuns
  /\ runs' = runs + 1
  /\ IF sim[i].config.num_periods > 0
     THEN /\ sim' = [sim EXCEPT ![i].current_period = 0]
          /\ pc' = [pc EXCEPT ![i] = "arrivals"]
     ELSE /\ pc' = [pc EXCEPT ![i] = "calc"]
          /\ UNCHANGED sim
  /\ UNCHANGED <<results, hist, comparison, mode, fm, weekly>>

DoProcessArrivals(i) ==
  /\ pc[i] = "arrivals"
  /\ Scheduled(i)
  /\ LET s == sim[i]
         s2 == ProcessArrivals(s)
         Arrived(x) == x.arrival_day <= s.current_period
         Gone(leg, q, q2) ==
           \* the shipments of q that are no longer in q2 (q2 is a subsequence of q)
           LET Left(x) == \A k \in 1..Len(q2) : q2[k] # x
               removed == SelectSeq(q, Left)
           IN [k \in 1..Len(removed) |->
                 [leg |-> leg, arrival_day |-> removed[k].arrival_day,
                  day |-> s.current_period, qty |-> removed[k].qty]]
     IN Step(i, s2, "demand",
             [hist[i] EXCEPT
                !.oem_received = @ + (s2.oem_inventory - s.oem_inventory),
                !.t1_received = @ + (s2.t1_inventory - s.t1_inventory),
                !.delivered = @ \o Gone("t1_to_oem", s.t1_shipments, s2.t1_shipments)
                                \o Gone("t2_to_t1", s.t2_shipments, s2.t2_shipments)])

DoProcessOemDemand(i) ==
  /\ pc[i] = "demand"
  /\ Scheduled(i)
  /\ LET s == sim[i]
         s2 == ProcessOemDemand(s)
     IN Step(i, s2, "forecast",
             [hist[i] EXCEPT
                !.demand_log = Append(@,
                   [day |-> s.current_period, pos |-> s.rng.pos,
                    demand |-> s2.total_customer_demand - s.total_customer_demand])])

DoUpdateForecast(i) ==
  /\ pc[i] = "forecast"
  /\ Scheduled(i)
  /\ IF UpdateForecastRaises(sim[i])
     THEN Raise(i)
     ELSE LET s == sim[i]
              s2 == UpdateForecast(s)
          IN Step(i, s2, "oem_order",
                  [hist[i] EXCEPT
                     !.forecast_log =
                        IF s2.maybe_update_calls > s.maybe_update_calls
                        THEN Append(@, [day |-> s.current_period,
                                        cached |-> s.current_forecast,
                                        returned |-> s2.active_forecast,
                                        pos_before |-> s.rng.pos,
                                        pos_after |-> s2.rng.pos])
                        ELSE @])

\* _place_oem_order followed by _place_t1_order, the fulfilment call left out.
DoPlaceOemOrderSkipsFulfil(i) ==
  /\ pc[i] = "oem_order"
  /\ Scheduled(i)
  /\ IF PlaceOemOrderRaises(sim[i])
     THEN Raise(i)
     ELSE Step(i, PlaceOemOrder(sim[i]), "t1_order", hist[i])

DoPlaceOemOrder(i) ==
  /\ pc[i] = "oem_order"
  /\ Scheduled(i)
  /\ IF PlaceOemOrderRaises(sim[i])
     THEN Raise(i)
     ELSE LET s == sim[i]
              s2 == PlaceOemOrder(s)
          IN Step(i, s2, "fulfill",
                  [hist[i] EXCEPT
                     !.order_log =
                        IF Len(s2.oem_order_history) > Len(s.oem_order_history)
                        THEN Append(@, [day |-> s.current_period,
                                        size |-> s2.oem_order_history[Len(s2.oem_order_history)]])
                        ELSE @])

DoFulfillOemOrders(i) ==
  /\ pc[i] = "fulfill"
  /\ Scheduled(i)
  /\ LET s == sim[i]
         s2 == FulfillOemOrders(s)
         created == SubSeq(s2.t1_shipments, Len(s.t1_shipments) + 1, Len(s2.t1_shipments))
     IN Step(i, s2, "t1_order",
             [hist[i] EXCEPT
                !.shipped_qty = @ + SumQty(created),
                !.shipped = @ \o [k \in 1..Len(created) |->
                                    [day |-> s.current_period,
                                     arrival_day |-> created[k].arrival_day,
                                     qty |-> created[k].qty,
                                     order_day |-> created[k].order_day]],
                !.pass = <<[before |-> s.oem_orders, after |-> s2.oem_orders,
                            created |-> created]>>])

DoPlaceT1Order(i) ==
  /\ pc[i] = "t1_order"
  /\ Scheduled(i)
  /\ IF PlaceT1OrderRaises(sim[i])
     THEN Raise(i)
     ELSE LET s == sim[i]
              s2 == PlaceT1Order(s)
          IN Step(i, s2, "t2_production",
                  [hist[i] EXCEPT
                     !.targets =
                        IF Len(s2.t1_order_history) > Len(s.t1_order_history)
                        THEN Append(@, TargetOrderUpTo(s))
                        ELSE @])

DoProcessT2Production(i) ==
  /\ pc[i] = "t2_production"
  /\ Scheduled(i)
  /\ LET s == sim[i]
         s2 == ProcessT2Production(s)
         created == SubSeq(s2.t2_shipments, Len(s.t2_shipments) + 1, Len(s2.t2_shipments))
     IN Step(i, s2, "metrics",
             [hist[i] EXCEPT
                !.produced_qty = @ + SumQty(created),
                !.capacity_log = Append(@,
                   [day |-> s.current_period,
                    downtime |-> UniformQ(Raw(s.rng.seed, s.rng.pos))
                                   < s.config.t2_downtime_probability,
                    capacity |-> DailyCapacity(s).value,
                    backlog |-> s.t2_backlog,
                    produced |-> SumQty(created)])])

\* _track_metrics, the loop left one day before range(num_periods) is used up.
DoTrackMetricsStopsEarly(i) ==
  /\ pc[i] = "metrics"
  /\ Scheduled(i)
  /\ LET s == sim[i]
         s2 == TrackMetrics(s)
         h2 == [hist[i] EXCEPT !.trace = Append(@, Snapshot(s2))]
     IN IF s.current_period + 2 < s.config.num_periods
        THEN Step(i, [s2 EXCEPT !.current_period = @ + 1], "arrivals", h2)
        ELSE Step(i, s2, "calc", h2)

\* _track_metrics, then the head of the loop for the next day.
DoTrackMetrics(i) ==
  /\ pc[i] = "metrics"
  /\ Scheduled(i)
  /\ LET s == sim[i]
         s2 == TrackMetrics(s)
         h2 == [hist[i] EXCEPT !.trace = Append(@, Snapshot(s2))]
     IN IF s.current_period + 1 < s.config.num_periods
        THEN Step(i, [s2 EXCEPT !.current_period = @ + 1], "arrivals", h2)
        ELSE Step(i, s2, "calc", h2)

\* return self._calculate_results()
DoCalculateResults(i) ==
  /\ pc[i] = "calc"
  /\ Scheduled(i)
  /\ results' = [results EXCEPT ![i] = Append(@, CalculateResults(sim[i]))]
  /\ pc' = [pc EXCEPT ![i] = "returned"]
  /\ hist' = [hist EXCEPT ![i].live = @ \cup {Len(results[i]) + 1}]
  /\ UNCHANGED <<sim, runs, comparison, mode, fm, weekly>>

\* The caller calls reset() on an instance that is not running.
DoReset(i) ==
  /\ pc[i] \in {"returned", "raised"}
  /\ Scheduled(i)
  /\ runs < MaxRuns
  /\ sim' = [sim EXCEPT ![i] = Reset(sim[i])]
  /\ pc' = [pc EXCEPT ![i] = "ready"]
  /\ hist' = [hist EXCEPT ![i] = EmptyHist]
  /\ UNCHANGED <<results, runs, comparison, mode, fm, weekly>>

Next ==
  \E i \in Inst :
    \/ RunSimulation(i)
    \/ DoProcessArrivals(i)
    \/ DoProcessOemDemand(i)
    \/ DoUpdateForecast(i)
    \/ DoPlaceOemOrder(i)
    \/ DoFulfillOemOrders(i)
    \/ DoPlaceT1Order(i)
    \/ DoProcessT2Production(i)
    \/ DoTrackMetrics(i)
    \/ DoCalculateResults(i)
    \/ DoReset(i)

Spec == Init /\ [][Next]_vars

\* The seeds of the all-zero stream, of a mixed stream and of the all-one
\* stream.
ExtremeSeeds == {0, 5, Pow2(StreamLen) - 1}

\* Runs of valid configurations, with the interpreter kept going: it keeps
\* executing the statement it is at, so a step that can be taken is taken.
InitValid ==
  /\ sim \in {<<NewSimulation(c, "baseline"), NewSimulation(c, "forecast_sharing")>> :
               c \in {x \in Configs : ValidConfig(x) /\ x.seed \in ExtremeSeeds}}
  /\ pc = [i \in Inst |-> "ready"]
  /\ results = [i \in Inst |-> <<>>]
  /\ runs = 0
  /\ hist = [i \in Inst |-> EmptyHist]
  /\ comparison = [status |-> "none"]
  /\ mode = "sequential"
  /\ fm = [stage |-> "none"]
  /\ weekly = [kind |-> "none"]

FairSpec == InitValid /\ [][Next]_vars /\ WF_vars(Next)

-----------------------------------------------------------------------------
(* ForecastModule used on its own, as the unit tests use it: constructed     *)
(* with keyword arguments, then asked once for the forecast of a day.        *)

\* The parameters of ForecastModule.__init__ after self.
ForecastModuleParams == {"config", "avg_daily_demand", "rng"}

\* Future-demand plans a caller may hold.
DemandPlans == {<<1, 2, 1, 2>>, <<2, 2, 1, 1>>}

\* The constructor calls: every parameter given by keyword, or demand_plan
\* given in place of avg_daily_demand.
ForecastModuleCalls ==
  {[config |-> fs, avg_daily_demand |-> a, rng |-> [seed |-> sd, pos |-> 0]] :
     fs \in ValidForecastSharing, a \in {1, 2}, sd \in Seeds}
  \cup
  {[config |-> fs, demand_plan |-> p, rng |-> [seed |-> sd, pos |-> 0]] :
     fs \in ValidForecastSharing, p \in DemandPlans, sd \in Seeds}

InitForecastModule ==
  /\ sim = <<NewSimulation(BaseConfig, "baseline"), NewSimulation(BaseConfig, "forecast_sharing")>>
  /\ pc = [i \in Inst |-> "ready"]
  /\ results = [i \in Inst |-> <<>>]
  /\ runs = 0
  /\ hist = [i \in Inst |-> EmptyHist]
  /\ comparison = [status |-> "none"]
  /\ mode = "sequential"
  /\ fm \in {[stage |-> "call", kwargs |-> k, day |-> d] :
               k \in ForecastModuleCalls, d \in 0..(MaxPeriods - 1)}
  /\ weekly = [kind |-> "none"]

\* ForecastModule(**kwargs): Python binds the keywords to the parameters of
\* __init__ and raises TypeError for a keyword that is no parameter or a
\* parameter left without a value; otherwise __init__ runs.
ConstructForecastModule ==
  /\ fm.stage = "call"
  /\ fm' = IF DOMAIN fm.kwargs = ForecastModuleParams
           THEN LET c == [forecast_sharing |-> fm.kwargs.config,
                          avg_daily_demand |-> fm.kwargs.avg_daily_demand]
                IN [stage |-> "constructed", kwargs |-> fm.kwargs, day |-> fm.day,
                    obj |-> [config |-> c, rng |-> fm.kwargs.rng,
                             current_forecast |-> ForecastInit(c),
                             current_period |-> 0, maybe_update_calls |-> 0]]
           ELSE [stage |-> "raised", kwargs |-> fm.kwargs, day |-> fm.day]
  /\ UNCHANGED <<sim, pc, results, runs, hist, comparison, mode, weekly>>

\* module.maybe_update(day)
CallMaybeUpdate ==
  /\ fm.stage = "constructed"
  /\ LET obj == MaybeUpdate([fm.obj EXCEPT !.current_period = fm.day])
     IN fm' = [stage |-> "returned", kwargs |-> fm.kwargs, day |-> fm.day,
               obj |-> obj, returned |-> obj.current_forecast]
  /\ UNCHANGED <<sim, pc, results, runs, hist, comparison, mode, weekly>>

NextForecastModule == ConstructForecastModule \/ CallMaybeUpdate

SpecForecastModule == InitForecastModule /\ [][NextForecastModule]_vars

-----------------------------------------------------------------------------
(* compare_scenarios(config): the two instances are the baseline and the     *)
(* forecast_sharing simulation of one config; run_baseline is called, and    *)
(* run_forecast_sharing only once it has returned.                           *)

InitCompareScenarios ==
  /\ sim \in {<<NewSimulation(c, "baseline"), NewSimulation(c, "forecast_sharing")>> :
               c \in Configs}
  /\ pc = [i \in Inst |-> "ready"]
  /\ results = [i \in Inst |-> <<>>]
  /\ runs = 0
  /\ hist = [i \in Inst |-> EmptyHist]
  /\ comparison = [status |-> "called"]
  /\ mode = "sequential"
  /\ fm = [stage |-> "none"]
  /\ weekly = [kind |-> "none"]

\* baseline_results = run_baseline(config), then
\* forecast_results = run_forecast_sharing(config).
CompareRun(i) ==
  /\ comparison.status = "called"
  /\ \A j \in Inst : j < i => pc[j] = "returned"
  /\ RunSimulation(i)

\* A comparison is handed back as soon as the baseline run has a result.
CompareScenariosReturnPartial ==
  /\ comparison.status = "called"
  /\ pc[1] = "returned"
  /\ pc[2] \in {"returned", "raised"}
  /\ comparison' =
       [status |-> "returned",
        baseline |-> results[1][Len(results[1])],
        forecast_sharing |->
          IF pc[2] = "returned" THEN results[2][Len(results[2])] ELSE [scenario_name |-> "none"]]
  /\ UNCHANGED <<sim, pc, results, runs, hist, mode, fm, weekly>>

\* return ScenarioComparison(baseline=baseline_results,
\*                           forecast_sharing=forecast_results)
CompareScenariosReturn ==
  /\ comparison.status = "called"
  /\ \A i \in Inst : pc[i] = "returned"
  /\ comparison' =
       [status |-> "returned",
        baseline |-> results[1][Len(results[1])],
        forecast_sharing |-> results[2][Len(results[2])]]
  /\ UNCHANGED <<sim, pc, results, runs, hist, mode, fm, weekly>>

\* An exception of either run leaves compare_scenarios, which has no handler.
CompareScenariosRaise ==
  /\ comparison.status = "called"
  /\ \E i \in Inst : pc[i] = "raised"
  /\ comparison' = [status |-> "raised"]
  /\ UNCHANGED <<sim, pc, results, runs, hist, mode, fm, weekly>>

NextCompareScenarios ==
  \/ \E i \in Inst :
       \/ CompareRun(i)
       \/ DoProcessArrivals(i)
       \/ DoProcessOemDemand(i)
       \/ DoUpdateForecast(i)
       \/ DoPlaceOemOrder(i)
       \/ DoFulfillOemOrders(i)
       \/ DoPlaceT1Order(i)
       \/ DoProcessT2Production(i)
       \/ DoTrackMetrics(i)
       \/ DoCalculateResults(i)
  \/ CompareScenariosReturn
  \/ CompareScenariosRaise

SpecCompareScenarios == InitCompareScenarios /\ [][NextCompareScenarios]_vars

-----------------------------------------------------------------------------
(* Two instances driven phase by phase in any order: a caller that holds     *)
(* both and advances either one at will.                                     *)

\* The forecast_sharing configuration with noise, refreshed every other day.
NoiseForecastSharing ==
  [BaseForecastSharing EXCEPT !.forecast_accuracy_model = "noise",
                              !.forecast_update_frequency = 2]

InterleavedConfigs ==
  {[c EXCEPT !.seed = sd] :
     c \in {[BaseConfig EXCEPT !.forecast_sharing = NoiseForecastSharing],
            [HighDemandConfig EXCEPT !.forecast_sharing = NoiseForecastSharing],
            [BaseConfig EXCEPT !.forecast_sharing =
               [BaseForecastSharing EXCEPT !.forecast_update_frequency = 0,
                                           !.forecast_accuracy_model = "noise"]]},
     sd \in Seeds}

InitInterleaved ==
  /\ sim \in {<<NewSimulation(c, "baseline"), NewSimulation(c, "forecast_sharing")>> :
               c \in InterleavedConfigs}
  /\ pc = [i \in Inst |-> "ready"]
  /\ results = [i \in Inst |-> <<>>]
  /\ runs = 0
  /\ hist = [i \in Inst |-> EmptyHist]
  /\ comparison = [status |-> "none"]
  /\ mode = "interleaved"
  /\ fm = [stage |-> "none"]
  /\ weekly = [kind |-> "none"]

NextInterleaved ==
  \E i \in Inst :
    \/ RunSimulation(i)
    \/ DoProcessArrivals(i)
    \/ DoProcessOemDemand(i)
    \/ DoUpdateForecast(i)
    \/ DoPlaceOemOrder(i)
    \/ DoFulfillOemOrders(i)
    \/ DoPlaceT1Order(i)
    \/ DoProcessT2Production(i)
    \/ DoTrackMetrics(i)
    \/ DoCalculateResults(i)

SpecInterleaved == InitInterleaved /\ [][NextInterleaved]_vars

\* The body of "for day in range(num_periods)" for the day s.current_period.
RunPeriod(s) ==
  TrackMetrics(ProcessT2Production(PlaceT1Order(FulfillOemOrders(
    PlaceOemOrder(UpdateForecast(ProcessOemDemand(ProcessArrivals(s))))))))

\* The instance after run_simulation has gone through n periods from s,
\* nothing else running.
RECURSIVE AloneAfter(_, _)
AloneAfter(s, n) ==
  IF n = 0 THEN s
  ELSE RunPeriod([AloneAfter(s, n - 1) EXCEPT !.current_period = n - 1])

-----------------------------------------------------------------------------
(* An instance used again after it has returned: the caller either calls     *)
(* reset() first or calls run_simulation() straight away.                    *)

\* run_simulation is called on an instance that has returned and was not
\* reset: the loop starts again at day 0 on the fields as they are.
RunSimulationAgain(i) ==
  /\ pc[i] = "returned"
  /\ Scheduled(i)
  /\ runs < MaxRuns
  /\ runs' = runs + 1
  /\ IF sim[i].config.num_periods > 0
     THEN /\ sim' = [sim EXCEPT ![i].current_period = 0]
          /\ pc' = [pc EXCEPT ![i] = "arrivals"]
     ELSE /\ pc' = [pc EXCEPT ![i] = "calc"]
          /\ UNCHANGED sim
  /\ UNCHANGED <<results, hist, comparison, mode, fm, weekly>>

InitRerun ==
  /\ sim \in {<<NewSimulation(c, n), NewSimulation(c, n)>> :
               c \in {[x EXCEPT !.seed = sd] :
                        x \in {BaseConfig, HighDemandConfig}, sd \in Seeds},
               n \in Scenarios}
  /\ pc = [i \in Inst |-> "ready"]
  /\ results = [i \in Inst |-> <<>>]
  /\ runs = 0
  /\ hist = [i \in Inst |-> EmptyHist]
  /\ comparison = [status |-> "none"]
  /\ mode = "sequential"
  /\ fm = [stage |-> "none"]
  /\ weekly = [kind |-> "none"]

NextRerun ==
  \E i \in Inst :
    \/ RunSimulation(i)
    \/ RunSimulationAgain(i)
    \/ DoProcessArrivals(i)
    \/ DoProcessOemDemand(i)
    \/ DoUpdateForecast(i)
    \/ DoPlaceOemOrder(i)
    \/ DoFulfillOemOrders(i)
    \/ DoPlaceT1Order(i)
    \/ DoProcessT2Production(i)
    \/ DoTrackMetrics(i)
    \/ DoCalculateResults(i)
    \/ DoReset(i)

SpecRerun == InitRerun /\ [][NextRerun]_vars

-----------------------------------------------------------------------------
(* simulate_baseline of sc_simulation/baseline.py: the same period loop       *)
(* written as one function over local variables.  Its arrivals, demand, OEM   *)
(* order, fulfilment and production statements are those of the class; the    *)
(* policy step keeps t2_pipeline and t1_backlog_qty in locals, which the end  *)
(* of the loop body appends to daily_wip and daily_backlog.  Every day is a   *)
(* review day and no forecast is used.                                        *)

\* The locals of simulate_baseline: those of the class, and t2_pipeline.
BaselineLocals(s) ==
  [f \in DOMAIN s \cup {"t2_pipeline"} |-> IF f = "t2_pipeline" THEN 0 ELSE s[f]]

\* BaselineParams values: the configurations reviewed daily.
BaselineParams ==
  {[c EXCEPT !.seed = sd] :
     c \in {BaseConfig, HighDemandConfig,
            [BaseConfig EXCEPT !.t1_initial_inventory = 0],
            [BaseConfig EXCEPT !.oem_order_cycle_days = 2]},
     sd \in Seeds}

InitSimulateBaseline ==
  /\ sim \in {<<BaselineLocals(NewSimulation(c, "baseline")),
                 BaselineLocals(NewSimulation([c EXCEPT !.t2_daily_mean_capacity = @ + 1],
                                              "baseline"))>> :
               c \in BaselineParams}
  /\ pc = [i \in Inst |-> "ready"]
  /\ results = [i \in Inst |-> <<>>]
  /\ runs = 0
  /\ hist = [i \in Inst |-> EmptyHist]
  /\ comparison = [status |-> "none"]
  /\ mode = "simulate_baseline"
  /\ fm = [stage |-> "none"]
  /\ weekly = [kind |-> "none"]

\* "T1 inventory policy toward T2"
DoBaselinePolicy(i) ==
  /\ pc[i] = "t1_order"
  /\ Scheduled(i)
  /\ LET s == sim[i]
         t2_pipeline == SumQty(s.t2_shipments)
         inventory_position == s.t1_inventory + t2_pipeline - SumRemaining(s.oem_orders)
         order_qty == IF inventory_position <= s.t1_rop
                      THEN Max(0, s.t1_order_up_to - inventory_position)
                      ELSE 0
     IN Step(i, [s EXCEPT !.t2_pipeline = t2_pipeline,
                          !.t2_backlog = @ + order_qty,
                          !.t1_order_history = Append(@, order_qty)],
             "t2_production",
             [hist[i] EXCEPT !.targets = Append(@, s.t1_order_up_to)])

\* daily_wip.append(t1_inventory + t2_pipeline);
\* daily_backlog.append(t1_backlog_qty); then the next day.
DoBaselineMetrics(i) ==
  /\ pc[i] = "metrics"
  /\ Scheduled(i)
  /\ LET s == sim[i]
         s2 == [s EXCEPT
                  !.wip_levels = Append(@, s.t1_inventory + s.t2_pipeline),
                  !.backlog_levels = Append(@, SumRemaining(s.oem_orders)),
                  !.inventory_levels = Append(@, s.t1_inventory)]
         h2 == [hist[i] EXCEPT !.trace = Append(@, Snapshot(s2))]
     IN IF s.current_period + 1 < s.config.num_periods
        THEN Step(i, [s2 EXCEPT !.current_period = @ + 1], "arrivals", h2)
        ELSE Step(i, s2, "calc", h2)

NextSimulateBaseline ==
  \E i \in Inst :
    \/ RunSimulation(i)
    \/ DoProcessArrivals(i)
    \/ DoProcessOemDemand(i)
    \/ DoUpdateForecast(i)
    \/ DoPlaceOemOrder(i)
    \/ DoFulfillOemOrders(i)
    \/ DoBaselinePolicy(i)
    \/ DoProcessT2Production(i)
    \/ DoBaselineMetrics(i)
    \/ DoCalculateResults(i)

SpecSimulateBaseline == InitSimulateBaseline /\ [][NextSimulateBaseline]_vars

-----------------------------------------------------------------------------
(* The class and the function side by side: instance 1 is a                   *)
(* SupplyChainSimulation built for the baseline scenario, instance 2 the      *)
(* locals of a call of simulate_baseline with the same parameters and seed.   *)

\* An instance that is a call of simulate_baseline.
IsFunctionCall(i) == "t2_pipeline" \in DOMAIN sim[i]

\* "OEM demand from customer": the demand is taken from oem_inventory, which
\* is emptied when the demand exceeds it; no total is kept.
DoBaselineDemand(i) ==
  /\ pc[i] = "demand"
  /\ IsFunctionCall(i)
  /\ Scheduled(i)
  /\ LET s == sim[i]
         d == Poisson(s.rng.seed, s.rng.pos, s.config.avg_daily_demand)
     IN Step(i, [s EXCEPT !.rng.pos = d.pos,
                          !.oem_inventory = IF d.value <= @ THEN @ - d.value ELSE 0],
             "forecast",
             [hist[i] EXCEPT
                !.demand_log = Append(@, [day |-> s.current_period, pos |-> s.rng.pos,
                                          demand |-> d.value])])

\* The BaselineResults built after the loop.
BaselineReturn(s) ==
  [mean_lead_time |-> MeanOf(s.lead_times),
   lead_time_std_sq |->
     IF s.lead_times # <<>> THEN PVariance(s.lead_times) ELSE [n |-> 0, d |-> 1],
   max_lead_time |-> IF s.lead_times # <<>> THEN MaxSeq(s.lead_times) ELSE 0,
   avg_wip |-> MeanOf(s.wip_levels),
   avg_backlog |-> MeanOf(s.backlog_levels),
   otif |-> IF s.total_shipments # 0
            THEN [n |-> s.on_time_shipments, d |-> s.total_shipments]
            ELSE [n |-> 0, d |-> 1],
   lead_times |-> s.lead_times]

DoBaselineReturn(i) ==
  /\ pc[i] = "calc"
  /\ IsFunctionCall(i)
  /\ Scheduled(i)
  /\ results' = [results EXCEPT ![i] = Append(@, BaselineReturn(sim[i]))]
  /\ pc' = [pc EXCEPT ![i] = "returned"]
  /\ UNCHANGED <<sim, runs, hist, comparison, mode, fm, weekly>>

InitEquivalence ==
  /\ sim \in {<<NewSimulation(c, "baseline"),
                 BaselineLocals(NewSimulation(c, "baseline"))>> :
               c \in BaselineParams}
  /\ pc = [i \in Inst |-> "ready"]
  /\ results = [i \in Inst |-> <<>>]
  /\ runs = 0
  /\ hist = [i \in Inst |-> EmptyHist]
  /\ comparison = [status |-> "none"]
  /\ mode = "equivalence"
  /\ fm = [stage |-> "none"]
  /\ weekly = [kind |-> "none"]

NextEquivalence ==
  \E i \in Inst :
    \/ RunSimulation(i)
    \/ DoProcessArrivals(i)
    \/ ~IsFunctionCall(i) /\ DoProcessOemDemand(i)
    \/ DoBaselineDemand(i)
    \/ DoUpdateForecast(i)
    \/ DoPlaceOemOrder(i)
    \/ DoFulfillOemOrders(i)
    \/ ~IsFunctionCall(i) /\ DoPlaceT1Order(i)
    \/ IsFunctionCall(i) /\ DoBaselinePolicy(i)
    \/ DoProcessT2Production(i)
    \/ ~IsFunctionCall(i) /\ DoTrackMetrics(i)
    \/ IsFunctionCall(i) /\ DoBaselineMetrics(i)
    \/ ~IsFunctionCall(i) /\ DoCalculateResults(i)
    \/ DoBaselineReturn(i)

SpecEquivalence == InitEquivalence /\ [][NextEquivalence]_vars

-----------------------------------------------------------------------------
(* simulation.py: the weekly order-only model.  weekly is a SupplyNode used   *)
(* by a caller (kind "node"), a Tier2Queue used by a caller (kind "queue"),   *)
(* or the locals of a call of simulate (kind "simulate").  The field last     *)
(* records the latest call, its argument, what it returned and the object     *)
(* before it (not program state).                                             *)

Quantities == 0..MaxQty

\* SupplyNode.receive
Receive(node, quantity) == [node EXCEPT !.inventory = @ + quantity]

\* SupplyNode.ship: the node after the call and the value returned.
Ship(node, demand) ==
  LET shipped == Min(node.inventory, demand)
  IN [node |-> [node EXCEPT !.inventory = @ - shipped,
                            !.backlog = @ + (demand - shipped)],
      returned |-> shipped]

\* clear_backlog taking the whole backlog out of the inventory.
ClearBacklogInFull(node) ==
  LET cleared == node.backlog
  IN [node |-> [node EXCEPT !.inventory = @ - cleared, !.backlog = @ - cleared],
      returned |-> cleared]

\* SupplyNode.clear_backlog
ClearBacklog(node) ==
  LET cleared == Min(node.inventory, node.backlog)
  IN [node |-> [node EXCEPT !.inventory = @ - cleared, !.backlog = @ - cleared],
      returned |-> cleared]

\* Tier2Queue.total_on_order
RECURSIVE TotalOnOrder(_)
TotalOnOrder(orders) ==
  IF orders = <<>> THEN 0 ELSE Head(orders).quantity + TotalOnOrder(Tail(orders))

\* The loop of process reporting a lead time for a partly served order too.
RECURSIVE ProcessLoopReportsPartial(_, _, _, _, _)
ProcessLoopReportsPartial(orders, remaining_capacity, total_shipped, lead_times, current_time) ==
  IF orders = <<>> \/ remaining_capacity <= 0
  THEN [orders |-> orders, total_shipped |-> total_shipped, lead_times |-> lead_times]
  ELSE LET order == Head(orders)
       IN IF order.quantity <= remaining_capacity
          THEN ProcessLoopReportsPartial(Tail(orders), remaining_capacity - order.quantity,
                           total_shipped + order.quantity,
                           Append(lead_times, current_time - order.placed_at),
                           current_time)
          ELSE ProcessLoopReportsPartial(
                           <<[order EXCEPT !.quantity = @ - remaining_capacity]>> \o Tail(orders),
                           0, total_shipped + remaining_capacity,
                           Append(lead_times, current_time - order.placed_at),
                           current_time)

\* The while loop of Tier2Queue.process.
RECURSIVE ProcessLoop(_, _, _, _, _)
ProcessLoop(orders, remaining_capacity, total_shipped, lead_times, current_time) ==
  IF orders = <<>> \/ remaining_capacity <= 0
  THEN [orders |-> orders, total_shipped |-> total_shipped, lead_times |-> lead_times]
  ELSE LET order == Head(orders)
       IN IF order.quantity <= remaining_capacity
          THEN ProcessLoop(Tail(orders), remaining_capacity - order.quantity,
                           total_shipped + order.quantity,
                           Append(lead_times, current_time - order.placed_at),
                           current_time)
          ELSE ProcessLoop(<<[order EXCEPT !.quantity = @ - remaining_capacity]>> \o Tail(orders),
                           0, total_shipped + remaining_capacity, lead_times, current_time)

\* Tier2Queue.process(capacity, current_time): the queue after the call and
\* the pair returned.
Process(orders, capacity, current_time) == ProcessLoop(orders, capacity, 0, <<>>, current_time)

\* oem_demand: max(int(round(rng.gauss(50, sigma))), 0), for the rounded draw g.
OemDemand(g) == Max(g, 0)

\* Step 5 of the week enqueuing the order whatever its quantity.
PlaceOrderAlways(s) ==
  LET inventory_position ==
        s.tier1.inventory - s.tier1.backlog + TotalOnOrder(s.queue)
      order_qty == Max(s.base_stock - inventory_position, 0)
  IN [s EXCEPT !.queue = Append(@, [quantity |-> order_qty, placed_at |-> s.week]),
               !.order_qty = order_qty]

\* Step 5 of the week: the inventory position and the order to Tier 2.
PlaceOrder(s) ==
  LET inventory_position ==
        s.tier1.inventory - s.tier1.backlog + TotalOnOrder(s.queue)
      order_qty == Max(s.base_stock - inventory_position, 0)
  IN [s EXCEPT !.queue = IF order_qty > 0
                         THEN Append(@, [quantity |-> order_qty, placed_at |-> s.week])
                         ELSE @,
               !.order_qty = order_qty]

\* The steps of a week with the order placed before Tier 2 processes.
StepAfterOrderFirst(p) ==
  CASE p = "demand" -> "clear_1"
    [] p = "clear_1" -> "order"
    [] p = "order" -> "process"
    [] p = "process" -> "clear_2"
    [] p = "clear_2" -> "record"

\* The steps of a week of simulate, in the order of the loop body.
StepAfter(p) ==
  CASE p = "demand" -> "clear_1"
    [] p = "clear_1" -> "process"
    [] p = "process" -> "clear_2"
    [] p = "clear_2" -> "order"
    [] p = "order" -> "record"

NoCall == [op |-> "none"]

\* simulate(weeks, base_stock, tier2_capacity, ...) up to the loop.
NewSimulate(weeks, base_stock, tier2_capacity) ==
  [kind |-> "simulate",
   pc |-> IF weeks > 0 THEN "demand" ELSE "returned",
   weeks |-> weeks, base_stock |-> base_stock, tier2_capacity |-> tier2_capacity,
   week |-> 0,
   tier1 |-> [inventory |-> base_stock, backlog |-> 0],
   queue |-> <<>>,
   lead_times |-> <<>>,
   kpis |-> [tier1_inventory |-> <<>>, tier1_backlog |-> <<>>, queue_wip |-> <<>>,
             oem_demand |-> <<>>, tier2_shipped |-> <<>>],
   total_demand |-> 0, total_shipped_to_oem |-> 0,
   demand |-> 0, shipped |-> 0, order_qty |-> 0,
   last |-> NoCall]

InitWeekly ==
  /\ sim = <<NewSimulation(BaseConfig, "baseline"), NewSimulation(BaseConfig, "forecast_sharing")>>
  /\ pc = [i \in Inst |-> "ready"]
  /\ results = [i \in Inst |-> <<>>]
  /\ runs = 0
  /\ hist = [i \in Inst |-> EmptyHist]
  /\ comparison = [status |-> "none"]
  /\ mode = "weekly"
  /\ fm = [stage |-> "none"]
  /\ weekly \in
       {[kind |-> "node", node |-> [inventory |-> q, backlog |-> 0], last |-> NoCall] :
          q \in Quantities}
       \cup {[kind |-> "queue", orders |-> <<>>, current_time |-> 0, last |-> NoCall]}
       \cup {NewSimulate(w, b, c) : w \in {0, MaxWeeks}, b \in Quantities, c \in Quantities}

Others == <<sim, pc, results, runs, hist, comparison, mode, fm>>

\* A caller of a SupplyNode: node.receive(quantity)
NodeReceive(quantity) ==
  /\ weekly.kind = "node"
  /\ weekly.node.inventory + quantity <= 2 * MaxQty
  /\ weekly' = [weekly EXCEPT
                  !.node = Receive(@, quantity),
                  !.last = [op |-> "receive", arg |-> quantity, before |-> weekly.node]]
  /\ UNCHANGED Others

\* node.ship(demand)
NodeShip(demand) ==
  /\ weekly.kind = "node"
  /\ weekly.node.backlog + demand <= 2 * MaxQty
  /\ LET r == Ship(weekly.node, demand)
     IN weekly' = [weekly EXCEPT
                     !.node = r.node,
                     !.last = [op |-> "ship", arg |-> demand, returned |-> r.returned,
                               before |-> weekly.node]]
  /\ UNCHANGED Others

\* node.clear_backlog()
NodeClearBacklog ==
  /\ weekly.kind = "node"
  /\ LET r == ClearBacklog(weekly.node)
     IN weekly' = [weekly EXCEPT
                     !.node = r.node,
                     !.last = [op |-> "clear_backlog", returned |-> r.returned,
                               before |-> weekly.node]]
  /\ UNCHANGED Others

\* A caller of a Tier2Queue: queue.enqueue(Order(quantity, current_time))
QueueEnqueue(quantity) ==
  /\ weekly.kind = "queue"
  /\ quantity > 0
  /\ Len(weekly.orders) < MaxWeeks
  /\ weekly' = [weekly EXCEPT
                  !.orders = Append(@, [quantity |-> quantity,
                                        placed_at |-> weekly.current_time]),
                  !.last = [op |-> "enqueue", before |-> weekly.orders]]
  /\ UNCHANGED Others

\* queue.process(capacity, current_time)
QueueProcess(capacity) ==
  /\ weekly.kind = "queue"
  /\ LET r == Process(weekly.orders, capacity, weekly.current_time)
     IN weekly' = [weekly EXCEPT
                     !.orders = r.orders,
                     !.last = [op |-> "process", arg |-> capacity,
                               returned |-> <<r.total_shipped, r.lead_times>>,
                               before |-> weekly.orders]]
  /\ UNCHANGED Others

\* Time passes between two calls on the queue.
QueueTick ==
  /\ weekly.kind = "queue"
  /\ weekly.current_time < MaxWeeks
  /\ weekly' = [weekly EXCEPT !.current_time = @ + 1, !.last = NoCall]
  /\ UNCHANGED Others

\* "1) OEM demand arrives at Tier 1."
SimulateDemand(g) ==
  /\ weekly.kind = "simulate"
  /\ weekly.pc = "demand"
  /\ LET demand == OemDemand(g)
         r == Ship(weekly.tier1, demand)
     IN weekly' = [weekly EXCEPT
                     !.pc = StepAfter(@),
                     !.demand = demand,
                     !.tier1 = r.node,
                     !.total_demand = @ + demand,
                     !.total_shipped_to_oem = @ + r.returned,
                     !.last = [op |-> "ship", arg |-> demand, returned |-> r.returned,
                               before |-> weekly.tier1]]
  /\ UNCHANGED Others

\* "2) Tier 1 attempts to clear backlog" and "4) Tier 1 clears backlog after
\* receiving shipments."
SimulateClearBacklog ==
  /\ weekly.kind = "simulate"
  /\ weekly.pc \in {"clear_1", "clear_2"}
  /\ LET r == ClearBacklog(weekly.tier1)
     IN weekly' = [weekly EXCEPT
                     !.pc = StepAfter(@),
                     !.tier1 = r.node,
                     !.last = [op |-> "clear_backlog", returned |-> r.returned,
                               before |-> weekly.tier1]]
  /\ UNCHANGED Others

\* "3) Tier 2 processes the queue up to its capacity."
SimulateProcess ==
  /\ weekly.kind = "simulate"
  /\ weekly.pc = "process"
  /\ LET r == Process(weekly.queue, weekly.tier2_capacity, weekly.week)
     IN weekly' = [weekly EXCEPT
                     !.pc = StepAfter(@),
                     !.queue = r.orders,
                     !.shipped = r.total_shipped,
                     !.tier1 = Receive(@, r.total_shipped),
                     !.lead_times = @ \o r.lead_times,
                     !.last = [op |-> "process", arg |-> weekly.tier2_capacity,
                               returned |-> <<r.total_shipped, r.lead_times>>,
                               before |-> weekly.queue]]
  /\ UNCHANGED Others

\* "5) Tier 1 calculates inventory position and places order to Tier 2."
SimulateOrder ==
  /\ weekly.kind = "simulate"
  /\ weekly.pc = "order"
  /\ weekly' = [PlaceOrder(weekly) EXCEPT
                  !.pc = StepAfter(@),
                  !.last = [op |-> "order", before |-> weekly.queue]]
  /\ UNCHANGED Others

\* "6) Record KPIs for this week", then the next week or the return.
SimulateRecord ==
  /\ weekly.kind = "simulate"
  /\ weekly.pc = "record"
  /\ weekly' = [weekly EXCEPT
                  !.kpis.tier1_inventory = Append(@, weekly.tier1.inventory),
                  !.kpis.tier1_backlog = Append(@, weekly.tier1.backlog),
                  !.kpis.queue_wip = Append(@, TotalOnOrder(weekly.queue)),
                  !.kpis.oem_demand = Append(@, weekly.demand),
                  !.kpis.tier2_shipped = Append(@, weekly.shipped),
                  !.week = IF @ + 1 < weekly.weeks THEN @ + 1 ELSE @,
                  !.pc = IF weekly.week + 1 < weekly.weeks THEN "demand" ELSE "returned",
                  !.last = NoCall]
  /\ UNCHANGED Others

NextWeekly ==
  \/ \E q \in Quantities : NodeReceive(q)
  \/ \E d \in Quantities : NodeShip(d)
  \/ NodeClearBacklog
  \/ \E q \in Quantities : QueueEnqueue(q)
  \/ \E c \in Quantities : QueueProcess(c)
  \/ QueueTick
  \/ \E g \in -1..MaxQty : SimulateDemand(g)
  \/ SimulateClearBacklog
  \/ SimulateProcess
  \/ SimulateOrder
  \/ SimulateRecord

SpecWeekly == InitWeekly /\ [][NextWeekly]_vars

-----------------------------------------------------------------------------
(* Properties *)

AllNonNegative(q) == \A k \in 1..Len(q) : q[k] >= 0

\* C1: with non-negative initial inventories, in every state of a run (so
\* after every completed period): t1_inventory, oem_inventory and t2_backlog
\* are >= 0, every open OEM order has remaining >= 0, and every recorded
\* backlog_levels and inventory_levels entry is >= 0.
C1_NeverNegative ==
  \A i \in Inst :
    LET s == sim[i]
    IN (s.config.t1_initial_inventory >= 0 /\ s.config.oem_initial_inventory >= 0)
       => /\ s.t1_inventory >= 0
          /\ s.oem_inventory >= 0
          /\ s.t2_backlog >= 0
          /\ \A k \in 1..Len(s.oem_orders) : s.oem_orders[k].remaining >= 0
          /\ AllNonNegative(s.backlog_levels)
          /\ AllNonNegative(s.inventory_levels)

\* A run has returned in which customer demand exceeded the OEM stock, Tier-1
\* ran out of stock with orders open, and Tier-2 was left with backlog.
C1_Witness ==
  \E i \in Inst :
    /\ pc[i] = "returned"
    /\ sim[i].total_customer_fulfilled < sim[i].total_customer_demand
    /\ sim[i].total_customer_fulfilled > 0
    /\ \E k \in 1..Len(sim[i].backlog_levels) : sim[i].backlog_levels[k] > 0
    /\ \E k \in 1..Len(sim[i].inventory_levels) : sim[i].inventory_levels[k] = 0
    /\ sim[i].t2_backlog > 0

\* A fraction n / d lies in [lo, hi].
FractionIn(f, lo, hi) == f.d > 0 /\ lo * f.d <= f.n /\ f.n <= hi * f.d

\* C2: in every state on_time_shipments <= total_shipments and
\* total_customer_fulfilled <= total_customer_demand, and every
\* SimulationResults returned has 0 <= otif_percentage <= 100,
\* 0 <= fill_rate <= 1, mean_lead_time >= 0 and mean_wip >= 0.
C2_RatesInRange ==
  \A i \in Inst :
    /\ 0 <= sim[i].on_time_shipments
    /\ sim[i].on_time_shipments <= sim[i].total_shipments
    /\ 0 <= sim[i].total_customer_fulfilled
    /\ sim[i].total_customer_fulfilled <= sim[i].total_customer_demand
    /\ \A k \in 1..Len(results[i]) :
         LET r == results[i][k]
         IN /\ FractionIn(r.otif_percentage, 0, 100)
            /\ FractionIn(r.fill_rate, 0, 1)
            /\ r.mean_lead_time.d > 0 /\ r.mean_lead_time.n >= 0
            /\ r.mean_wip.d > 0 /\ r.mean_wip.n >= 0

\* A result with both rates strictly inside their ranges.
C2_Witness ==
  \E i \in Inst : \E k \in 1..Len(results[i]) :
    LET r == results[i][k]
    IN /\ 0 < r.otif_percentage.n /\ r.otif_percentage.n < 100 * r.otif_percentage.d
       /\ 0 < r.fill_rate.n /\ r.fill_rate.n < r.fill_rate.d
       /\ r.mean_lead_time.n > 0
       /\ r.mean_wip.n > 0

\* The periods both instances have completed in their current runs.
CommonPeriods(i, j) == 1..Min(Len(hist[i].trace), Len(hist[j].trace))

\* C3: two runs started from the same config (same seed) and the same
\* scenario, on two instances or on one instance reset in between, are in
\* identical states at the end of every period and return identical
\* SimulationResults; one of them raises only if the other does.
C3_Deterministic ==
  \A i, j \in Inst :
    (sim[i].config = sim[j].config /\ sim[i].scenario_name = sim[j].scenario_name)
    => /\ \A d \in CommonPeriods(i, j) : hist[i].trace[d] = hist[j].trace[d]
       /\ \A a \in 1..Len(results[i]) : \A b \in 1..Len(results[j]) :
            results[i][a] = results[j][b]
       /\ pc[i] = "raised" => results[j] = <<>>

\* Both instances have completed a run from one config and scenario, with
\* shipments made and the stream consumed.
C3_Witness ==
  /\ sim[1].config = sim[2].config
  /\ sim[1].scenario_name = sim[2].scenario_name
  /\ pc[1] = "returned" /\ pc[2] = "returned"
  /\ Len(hist[1].trace) = MaxPeriods /\ Len(hist[2].trace) = MaxPeriods
  /\ results[1][1].lead_times # <<>>
  /\ results[1][1] = results[2][1]
  /\ sim[1].rng.pos # 0

\* C4: a baseline and a forecast_sharing run from the same config and seed
\* draw the same customer demand and the same OEM order size in every period.
C4_SameRealization ==
  \A i, j \in Inst :
    (/\ sim[i].config = sim[j].config
     /\ sim[i].scenario_name = "baseline"
     /\ sim[j].scenario_name = "forecast_sharing")
    => /\ \A d \in 1..Min(Len(hist[i].demand_log), Len(hist[j].demand_log)) :
            hist[i].demand_log[d].demand = hist[j].demand_log[d].demand
       /\ \A d \in 1..Min(Len(hist[i].order_log), Len(hist[j].order_log)) :
            hist[i].order_log[d].size = hist[j].order_log[d].size

\* Two configs that differ at most in the embedded ForecastSharingConfig.
SameButForecastSharing(c1, c2) ==
  [c1 EXCEPT !.forecast_sharing = BaseForecastSharing]
    = [c2 EXCEPT !.forecast_sharing = BaseForecastSharing]

\* C5: in a baseline run maybe_update is never called, active_forecast stays
\* empty, the target of every Tier-1 ordering step is t1_order_up_to, and two
\* baseline runs whose configs differ only in the ForecastSharingConfig have
\* identical period-end states and results.
C5_BaselineIgnoresForecast ==
  \A i \in Inst :
    sim[i].scenario_name = "baseline"
    => /\ sim[i].maybe_update_calls = 0
       /\ sim[i].active_forecast = <<>>
       /\ \A k \in 1..Len(hist[i].targets) : hist[i].targets[k] = sim[i].t1_order_up_to
       /\ \A j \in Inst :
            (/\ sim[j].scenario_name = "baseline"
             /\ SameButForecastSharing(sim[i].config, sim[j].config))
            => /\ \A d \in CommonPeriods(i, j) : hist[i].trace[d] = hist[j].trace[d]
               /\ \A a \in 1..Len(results[i]) : \A b \in 1..Len(results[j]) :
                    results[i][a] = results[j][b]

\* Two baseline runs with different ForecastSharingConfigs have returned, and
\* Tier-1 placed an order in one of them.
C5_Witness ==
  /\ sim[1].scenario_name = "baseline" /\ sim[2].scenario_name = "baseline"
  /\ sim[1].config.forecast_sharing # sim[2].config.forecast_sharing
  /\ pc[1] = "returned" /\ pc[2] = "returned"
  /\ results[1] = results[2]
  /\ \E k \in 1..Len(sim[2].t1_order_history) : sim[2].t1_order_history[k] > 0
  /\ sim[2].config.forecast_sharing.forecast_accuracy_model = "noise"

\* Units shipped so far against the order placed on day d.
ShippedAgainst(h, d) ==
  LET For(x) == x.order_day = d IN SumQty(SelectSeq(h.shipped, For))

\* Remaining quantity of the open order placed on day d in orders, 0 if none.
RemainingOf(orders, d) ==
  LET For(o) == o.order_day = d IN SumRemaining(SelectSeq(orders, For))

\* C6: in every state (so at the end of every period) the sum of the OEM
\* order sizes placed so far equals the units of all Tier1->OEM shipments
\* created so far plus the remaining quantities of the open orders, and the
\* same holds order by order: the size of every order placed equals what was
\* shipped against it plus what remains of it, so its remaining quantity
\* changes only by the amounts shipped against it and it is never dropped.
C6_OrdersNeverDropped ==
  \A i \in Inst :
    /\ SumSeq(sim[i].oem_order_history)
         = hist[i].shipped_qty + SumRemaining(sim[i].oem_orders)
    /\ hist[i].shipped_qty = SumQty(hist[i].shipped)
    /\ \A k \in 1..Len(hist[i].order_log) :
         LET o == hist[i].order_log[k]
         IN o.size = ShippedAgainst(hist[i], o.day) + RemainingOf(sim[i].oem_orders, o.day)
    /\ \A k \in 1..Len(hist[i].pass) :
         LET p == hist[i].pass[k]
         IN \A j \in 1..Len(p.before) :
              LET d == p.before[j].order_day
                  For(x) == x.order_day = d
              IN p.before[j].remaining - RemainingOf(p.after, d)
                   = SumQty(SelectSeq(p.created, For))

\* A period has ended with an order partly shipped and still open.
C6_Witness ==
  \E i \in Inst :
    /\ hist[i].trace # <<>>
    /\ \E k \in 1..Len(sim[i].oem_orders) :
         LET d == sim[i].oem_orders[k].order_day
         IN /\ ShippedAgainst(hist[i], d) > 0
            /\ sim[i].oem_orders[k].remaining > 0
    /\ \E k \in 1..Len(hist[i].order_log) :
         /\ hist[i].order_log[k].size > 0
         /\ RemainingOf(sim[i].oem_orders, hist[i].order_log[k].day) = 0

\* Order a of the pass p received units in it.
ReceivedIn(p, a) == \E k \in 1..Len(p.created) : p.created[k].order_day = a.order_day

\* Order a of the pass p is still open after it.
OpenAfter(p, a) == \E k \in 1..Len(p.after) : p.after[k].order_day = a.order_day

\* C7: in every fulfilment pass an open order receives units only if every
\* order placed before it is fully satisfied by the end of the pass, at most
\* one order is partially fulfilled, and right after the pass either
\* t1_inventory = 0 or no open order remains.
C7_OldestFirst ==
  \A i \in Inst :
    /\ \A n \in 1..Len(hist[i].pass) :
         LET p == hist[i].pass[n]
             Orders == {p.before[k] : k \in 1..Len(p.before)}
         IN /\ \A a, b \in Orders :
                 (a.order_day < b.order_day /\ ReceivedIn(p, b)) => ~OpenAfter(p, a)
            /\ Cardinality({a \in Orders : ReceivedIn(p, a) /\ OpenAfter(p, a)}) <= 1
    /\ pc[i] = "t1_order" => (sim[i].t1_inventory = 0 \/ sim[i].oem_orders = <<>>)

\* A pass over two open orders in which the older one was satisfied and the
\* newer one partially fulfilled.
C7_Witness ==
  \E i \in Inst :
    /\ pc[i] = "t1_order"
    /\ \E n \in 1..Len(hist[i].pass) :
         LET p == hist[i].pass[n]
         IN /\ Len(p.before) >= 2
            /\ ReceivedIn(p, p.before[1]) /\ ~OpenAfter(p, p.before[1])
            /\ ReceivedIn(p, p.before[2]) /\ OpenAfter(p, p.before[2])

\* The shipments of the history h delivered on the given leg.
DeliveredOn(h, leg) ==
  LET On(e) == e.leg = leg IN SelectSeq(h.delivered, On)

\* Every shipment of the queue q arrives on day d or later.
DueFrom(q, d) == \A k \in 1..Len(q) : q[k].arrival_day >= d

C9_LeadTimeOnArrival ==
  \A i \in Inst :
    LET arrived == Len(DeliveredOn(hist[i], "t1_to_oem"))
    IN /\ Len(sim[i].lead_times) <= arrived
       /\ sim[i].total_shipments <= arrived
       /\ sim[i].on_time_shipments <= arrived

\* C10: with an invalid configuration run_simulation fails before the first
\* period: no period step is executed past the arrivals of period 0 (no
\* demand is drawn) and no result is returned.
C10_FailsFast ==
  \A i \in Inst :
    ~ValidConfig(sim[i].config)
    => /\ pc[i] \in {"ready", "arrivals", "raised"}
       /\ results[i] = <<>>
       /\ hist[i].demand_log = <<>>


\* The vector a refresh generates from the stream of seed at position pos.
FreshForecast(c, pos) ==
  [k \in 1..c.forecast_sharing.forecast_horizon |->
     IF c.forecast_sharing.forecast_accuracy_model = "perfect"
     THEN 2 * c.avg_daily_demand
     ELSE Max(0, 2 * c.avg_daily_demand
                 + c.forecast_sharing.forecast_error_std
                   * GaussH(Raw(c.seed, pos + k - 1)))]

\* Draws one refresh consumes.
RefreshDraws(c) ==
  IF c.forecast_sharing.forecast_accuracy_model = "perfect" THEN 0
  ELSE c.forecast_sharing.forecast_horizon

C12_PerfectFollowsPlan ==
  LET fs == fm.kwargs.config
      refresh == fm.day % fs.forecast_update_frequency = 0
  IN fm.stage # "none" =>
       /\ "demand_plan" \in DOMAIN fm.kwargs => fm.stage # "raised"
       /\ (fm.stage = "returned" /\ fs.forecast_accuracy_model = "perfect" /\ refresh) =>
            /\ Len(fm.returned) = fs.forecast_horizon
            /\ \A k \in 1..Len(fm.returned) :
                 fm.returned[k] =
                   IF "demand_plan" \in DOMAIN fm.kwargs
                   THEN 2 * fm.kwargs.demand_plan[fm.day + k]
                   ELSE 2 * fm.kwargs.avg_daily_demand


\* The vector v has n entries, none negative.
WellFormedForecast(v, n) ==
  /\ Len(v) = n
  /\ \A k \in 1..Len(v) : v[k] >= 0

C14_OrderSumsDiffer ==
  \A i, j \in Inst :
    (/\ sim[i].scenario_name = "baseline"
     /\ sim[j].scenario_name = "forecast_sharing"
     /\ sim[i].config = sim[j].config
     /\ ValidConfig(sim[j].config)
     /\ sim[j].config.forecast_sharing.t1_forecast_weight = 2
     /\ sim[j].config.forecast_sharing.forecast_accuracy_model = "noise"
     /\ sim[j].config.forecast_sharing.forecast_error_std > 0
     /\ pc[i] = "returned" /\ pc[j] = "returned")
    => SumSeq(sim[i].t1_order_history) # SumSeq(sim[j].t1_order_history)


\* Two configs that differ at most in the Tier-2 mean capacity.
SameButCapacity(c1, c2) ==
  [c1 EXCEPT !.t2_daily_mean_capacity = 0] = [c2 EXCEPT !.t2_daily_mean_capacity = 0]

\* The fraction a is at least the fraction b (positive denominators).
FractionGeq(a, b) == a.n * b.d >= b.n * a.d

\* The customer demand drawn in every period of the history h.
DemandDrawn(h) == [k \in 1..Len(h.demand_log) |-> h.demand_log[k].demand]

\* C15: of two completed runs of one scenario with the same seed, the same
\* demand parameters and configs that differ in the Tier-2 mean capacity
\* only, the run with the lower capacity has a mean_backlog at least that of
\* the run with the higher capacity, also when both runs drew the same
\* customer demand and the same OEM orders in every period.
C15_CapacityMonotone ==
  \A i, j \in Inst :
    (/\ sim[i].scenario_name = sim[j].scenario_name
     /\ SameButCapacity(sim[i].config, sim[j].config)
     /\ ValidConfig(sim[i].config) /\ ValidConfig(sim[j].config)
     /\ sim[i].config.t2_daily_mean_capacity < sim[j].config.t2_daily_mean_capacity
     /\ pc[i] = "returned" /\ pc[j] = "returned"
     /\ DemandDrawn(hist[i]) = DemandDrawn(hist[j])
     /\ hist[i].order_log = hist[j].order_log)
    => FractionGeq(results[i][Len(results[i])].mean_backlog,
                   results[j][Len(results[j])].mean_backlog)


\* All entries of the series q are equal (zero variance), or it has fewer
\* than two entries.
Flat(q) == \A a, b \in 1..Len(q) : q[a] = q[b]

\* C16: the bullwhip ratio of every result is a quotient with a nonzero
\* denominator (computing it divides by no zero), and it is exactly 0 when
\* the OEM order history has zero variance or fewer than two entries,
\* whatever the Tier-1 order history is.
C16_BullwhipZeroDenominator ==
  \A i \in Inst :
    /\ \A k \in 1..Len(results[i]) : results[i][k].bullwhip_sq.d > 0
    /\ (pc[i] = "returned" /\ Flat(sim[i].oem_order_history))
         => results[i][Len(results[i])].bullwhip_sq.n = 0

\* A run has returned with two or more equal OEM orders and Tier-1 orders
\* that vary; another has returned a positive bullwhip ratio.
C16_Witness ==
  /\ \E i \in Inst :
       /\ pc[i] = "returned"
       /\ Len(sim[i].oem_order_history) >= 2
       /\ Flat(sim[i].oem_order_history)
       /\ ~Flat(sim[i].t1_order_history)
       /\ results[i][Len(results[i])].bullwhip_sq.n = 0
  /\ \E i \in Inst : \E k \in 1..Len(results[i]) : results[i][k].bullwhip_sq.n > 0


\* The fraction f is a quotient by a nonzero number and equals 0.
ZeroFraction(f) == f.n = 0 /\ f.d > 0

C19_AllOrNothing ==
  /\ comparison.status = "returned" =>
       /\ \A i \in Inst : pc[i] = "returned" /\ Len(results[i]) = 1
       /\ comparison.baseline = results[1][1]
       /\ comparison.forecast_sharing = results[2][1]
       /\ comparison.baseline.scenario_name = "baseline"
       /\ comparison.forecast_sharing.scenario_name = "forecast_sharing"
       /\ sim[1].scenario_name = "baseline"
       /\ sim[2].scenario_name = "forecast_sharing"
       /\ sim[1].config = sim[2].config
  /\ (\E i \in Inst : pc[i] = "raised") => comparison.status \in {"called", "raised"}
  /\ comparison.status = "raised" => \E i \in Inst : pc[i] = "raised"
  /\ (comparison.status # "none" /\ pc[1] = "raised") => (pc[2] = "ready" /\ results[2] = <<>>)

\* The call has ended raised after the baseline run returned its result and
\* the forecast run raised.
C19_Witness ==
  /\ comparison.status = "raised"
  /\ pc[1] = "returned"
  /\ results[1] # <<>>
  /\ pc[2] = "raised"


\* C20: whatever the order in which the phases of two instances are taken,
\* each instance's period-end states and its result are those of that
\* instance run alone from its own construction, and a step of one instance
\* leaves the other's fields (queues, counters, random stream, forecast
\* cache), its position, its result and its history unchanged.
C20_NoSharedState ==
  /\ [](\A i \in Inst :
         LET s0 == NewSimulation(sim[i].config, sim[i].scenario_name)
         IN /\ \A k \in 1..Len(hist[i].trace) :
                 hist[i].trace[k] = Snapshot(AloneAfter(s0, k))
            /\ pc[i] = "returned" =>
                 /\ Len(results[i]) = 1
                 /\ results[i][1] = CalculateResults(AloneAfter(s0, sim[i].config.num_periods))
            /\ pc[i] = "ready" => sim[i] = s0)
  /\ [][\A i \in Inst :
         (sim'[i] # sim[i] \/ pc'[i] # pc[i] \/ results'[i] # results[i] \/ hist'[i] # hist[i])
           => \A j \in Inst \ {i} :
                /\ sim'[j] = sim[j]
                /\ pc'[j] = pc[j]
                /\ results'[j] = results[j]
                /\ hist'[j] = hist[j]]_vars

\* Both instances are inside run_simulation at once, each past its first
\* period and at a different phase, both having consumed their streams, the
\* forecast_sharing one holding a forecast.
C20_Witness ==
  /\ mode = "interleaved"
  /\ \A i \in Inst : pc[i] \in Phases /\ Len(hist[i].trace) >= 1 /\ sim[i].rng.pos # 0
  /\ pc[1] # pc[2]
  /\ sim[1].current_period # sim[2].current_period
  /\ sim[2].active_forecast # <<>>


\* C21: a result that run_simulation has returned is never changed by a later
\* operation on its instance: after reset() and after a further
\* run_simulation() its lead_times, wip_levels and backlog_levels series and
\* its scalars are what they were when it was returned.
C21_ResultFrozen ==
  [][\A i \in Inst : \A k \in 1..Len(results[i]) : results'[i][k] = results[i][k]]_vars


\* C22: for every valid config a run on a freshly constructed (or reset)
\* instance does not raise and does not stay inside run_simulation for ever
\* (again and again no such instance is inside it), so it returns; its periods
\* are 0, 1, ..., num_periods - 1 in increasing order, each gone through
\* once, and when the loop is left wip_levels, backlog_levels and
\* inventory_levels each have exactly num_periods entries.
C22_RunsAllPeriods ==
  /\ [](\A i \in Inst :
         ValidConfig(sim[i].config) =>
           /\ pc[i] # "raised"
           /\ \A k \in 1..Len(hist[i].trace) : hist[i].trace[k].current_period = k - 1
           /\ \A k \in 1..Len(hist[i].demand_log) : hist[i].demand_log[k].day = k - 1
           /\ Len(sim[i].wip_levels) = Len(hist[i].trace)
           /\ Len(sim[i].backlog_levels) = Len(hist[i].trace)
           /\ Len(sim[i].inventory_levels) = Len(hist[i].trace)
           /\ pc[i] \in Phases =>
                /\ Len(hist[i].trace) = sim[i].current_period
                /\ sim[i].current_period < sim[i].config.num_periods
           /\ pc[i] \in {"calc", "returned"} =>
                /\ Len(hist[i].trace) = sim[i].config.num_periods
                /\ Len(hist[i].demand_log) = sim[i].config.num_periods)
  /\ []<>(\A i \in Inst : ValidConfig(sim[i].config) => ~Running(i))

\* A run with a valid config of MaxPeriods periods has returned with one
\* entry per period in each series.
C22_Witness ==
  \E i \in Inst :
    /\ ValidConfig(sim[i].config)
    /\ pc[i] = "returned"
    /\ sim[i].config.num_periods = MaxPeriods
    /\ Len(sim[i].wip_levels) = MaxPeriods
    /\ Len(sim[i].backlog_levels) = MaxPeriods
    /\ Len(sim[i].inventory_levels) = MaxPeriods
    /\ hist[i].trace[MaxPeriods].current_period = MaxPeriods - 1


\* The phase that follows each phase inside a period.
PhaseAfter ==
  [p \in Phases |->
     CASE p = "arrivals" -> "demand"
       [] p = "demand" -> "forecast"
       [] p = "forecast" -> "oem_order"
       [] p = "oem_order" -> "fulfill"
       [] p = "fulfill" -> "t1_order"
       [] p = "t1_order" -> "t2_production"
       [] p = "t2_production" -> "metrics"
       [] p = "metrics" -> "arrivals"]

\* C23: within each period the phases run in the order arrivals, customer
\* demand, forecast refresh, OEM order, Tier-1 fulfilment, Tier-1
\* replenishment order, Tier-2 production, metrics, the day changing only
\* after metrics.  Hence t1_inventory and oem_inventory grow only in the
\* arrivals phase (units produced in period d reach t1_inventory no earlier
\* than the arrivals phase of period d + 1), Tier-2 backlog grows only in the
\* replenishment phase and shrinks only in the production phase of the same
\* period or a later one, a shipment leaves for the OEM in the period its
\* order was placed or a later one, and is released in a period after that.
C23_PhaseOrder ==
  /\ [][\A i \in Inst :
         /\ (pc[i] \in Phases /\ pc'[i] # pc[i]) =>
              \/ pc'[i] = PhaseAfter[pc[i]] /\ pc[i] # "metrics"
                   /\ sim'[i].current_period = sim[i].current_period
              \/ pc[i] = "metrics" /\ pc'[i] = "arrivals"
                   /\ sim'[i].current_period = sim[i].current_period + 1
              \/ pc[i] = "metrics" /\ pc'[i] = "calc"
              \/ pc[i] \in {"forecast", "oem_order", "t1_order"} /\ pc'[i] = "raised"
         /\ (pc[i] \in Phases /\ sim'[i].t1_inventory > sim[i].t1_inventory)
              => pc[i] = "arrivals"
         /\ (pc[i] \in Phases /\ sim'[i].oem_inventory > sim[i].oem_inventory)
              => pc[i] = "arrivals"
         /\ (pc[i] \in Phases /\ sim'[i].t2_backlog > sim[i].t2_backlog)
              => pc[i] = "t1_order"
         /\ (pc[i] \in Phases /\ sim'[i].t2_backlog < sim[i].t2_backlog)
              => pc[i] = "t2_production"
         /\ (pc[i] \in Phases /\ Len(sim'[i].t2_shipments) > Len(sim[i].t2_shipments))
              => pc[i] = "t2_production"
         /\ (pc[i] \in Phases /\ Len(sim'[i].t1_shipments) > Len(sim[i].t1_shipments))
              => pc[i] = "fulfill"]_vars
  /\ [](\A i \in Inst :
         /\ \A k \in 1..Len(hist[i].shipped) :
              hist[i].shipped[k].order_day <= hist[i].shipped[k].day
         /\ \A k \in 1..Len(hist[i].delivered) :
              hist[i].delivered[k].day >= 1)

\* In one run: an OEM order was shipped in the period it was placed; units
\* ordered from Tier-2 in period 0 were produced in period 0 and reached
\* Tier-1 in the arrivals phase of a later period d, Tier-1 having ended
\* period d - 1 with no stock; and Tier-1 shipped to the OEM in that period d.
C23_Witness ==
  \E i \in Inst :
    /\ \E k \in 1..Len(hist[i].shipped) :
         hist[i].shipped[k].order_day = hist[i].shipped[k].day
    /\ sim[i].t1_order_history # <<>>
    /\ sim[i].t1_order_history[1] > 0
    /\ \E k \in 1..Len(hist[i].delivered) :
         LET e == hist[i].delivered[k]
         IN /\ e.leg = "t2_to_t1"
            /\ e.day >= 1
            /\ sim[i].inventory_levels[e.day] = 0
            /\ \E m \in 1..Len(hist[i].shipped) : hist[i].shipped[m].day = e.day


\* On-hand stock plus the quantities in the Tier2->Tier1 queue minus the
\* remaining quantities of the open OEM orders.
PositionOf(s) ==
  LET Pipeline[k \in 0..Len(s.t2_shipments)] ==
        IF k = 0 THEN 0 ELSE Pipeline[k - 1] + s.t2_shipments[k].qty
      Owed[k \in 0..Len(s.oem_orders)] ==
        IF k = 0 THEN 0 ELSE Owed[k - 1] + s.oem_orders[k].remaining
  IN s.t1_inventory + Pipeline[Len(s.t2_shipments)] - Owed[Len(s.oem_orders)]

\* C24: the Tier-1 ordering step of a review period with inventory position
\* IP = t1_inventory + Tier2->Tier1 queue - open OEM remaining adds exactly
\* max(0, target - IP) to t2_backlog when IP <= t1_rop; when IP > t1_rop, or
\* the period is not a review period, it leaves t2_backlog unchanged.  The
\* step changes nothing else but the order history.
C24_ReorderRule ==
  [][\A i \in Inst :
       (pc[i] = "t1_order" /\ pc'[i] = "t2_production") =>
         LET s == sim[i]
             review == s.current_period % s.config.t1_review_period_days = 0
             IP == PositionOf(s)
             target == TargetOrderUpTo(s)
             qty == IF review /\ IP <= s.t1_rop
                    THEN (IF target - IP > 0 THEN target - IP ELSE 0)
                    ELSE 0
         IN /\ sim'[i].t2_backlog = s.t2_backlog + qty
            /\ sim'[i].t1_order_history =
                 (IF review THEN Append(s.t1_order_history, qty) ELSE s.t1_order_history)
            /\ sim'[i].t1_inventory = s.t1_inventory
            /\ sim'[i].t2_shipments = s.t2_shipments
            /\ sim'[i].oem_orders = s.oem_orders
            /\ sim'[i].rng = s.rng]_vars

\* Right after an ordering step that ordered from a position equal to the
\* reorder point, in a run with an earlier ordering step that ordered nothing
\* because the position was above it.
C24_Witness ==
  \E i \in Inst :
    /\ pc[i] = "t2_production"
    /\ sim[i].t1_order_history # <<>>
    /\ sim[i].t1_order_history[Len(sim[i].t1_order_history)] > 0
    /\ PositionOf(sim[i]) = sim[i].t1_rop
    /\ \E k \in 1..(Len(sim[i].t1_order_history) - 1) : sim[i].t1_order_history[k] = 0


\* C25: at a Tier-1 ordering step of a forecast_sharing run that holds a
\* forecast, the target level is t1_order_up_to plus the rounded blend
\* (1 - w) * avg_daily_demand * c + w * (sum of the forecast entries of the
\* next c periods), c = max(1, oem_order_cycle_days), w = t1_forecast_weight;
\* with the perfect accuracy model it is t1_order_up_to + avg_daily_demand * c
\* whatever w and forecast_horizon >= 1 are, horizons below c included.
\* (The forecast is in halves and w in halves: the blend is in quarters.)
C25_TargetBlend ==
  \A i \in Inst :
    LET s == sim[i]
        c == IF s.config.oem_order_cycle_days > 1 THEN s.config.oem_order_cycle_days ELSE 1
        w == s.config.forecast_sharing.t1_forecast_weight
        f == s.active_forecast
        Window[k \in 0..c] == IF k = 0 THEN 0 ELSE Window[k - 1] + f[k]
    IN (/\ pc[i] = "t2_production"
        /\ ValidConfig(s.config)
        /\ s.use_forecast
        /\ f # <<>>
        /\ s.current_period % s.config.t1_review_period_days = 0)
       => LET target == hist[i].targets[Len(hist[i].targets)]
          IN /\ Len(f) >= c =>
                  target = s.t1_order_up_to
                           + RoundHalfEven((2 - w) * 2 * s.config.avg_daily_demand * c
                                           + w * Window[c], 4)
             /\ s.config.forecast_sharing.forecast_accuracy_model = "perfect" =>
                  target = s.t1_order_up_to + s.config.avg_daily_demand * c


C27_ProductionGate ==
  /\ [][\A i \in Inst :
         (pc[i] = "t2_production" /\ pc'[i] = "metrics") =>
           LET s == sim[i]
               capacity == DailyCapacity(s).value
               produced == IF s.t2_backlog < capacity THEN s.t2_backlog ELSE capacity
               q == sim'[i].t2_shipments
           IN /\ sim'[i].t2_backlog = s.t2_backlog - produced
              /\ produced > 0 =>
                   /\ Len(q) = Len(s.t2_shipments) + 1
                   /\ SubSeq(q, 1, Len(s.t2_shipments)) = s.t2_shipments
                   /\ q[Len(q)].qty = produced
              /\ produced = 0 => q = s.t2_shipments]_vars
  /\ [](\A i \in Inst :
         SumSeq(sim[i].t1_order_history) = sim[i].t2_backlog + hist[i].produced_qty)

\* Right after a production step in which the capacity draw was below the
\* backlog: some of the ordered units have been produced, the rest wait.
C27_Witness ==
  \E i \in Inst :
    /\ pc[i] = "metrics"
    /\ sim[i].t2_backlog > 0
    /\ hist[i].produced_qty > 0
    /\ sim[i].t2_shipments # <<>>
    /\ SumSeq(sim[i].t1_order_history) > hist[i].produced_qty


\* C28: unused capacity is not carried forward and backlog does not expire:
\* the quantity produced in a period is at most that period's own capacity
\* draw, whatever capacity was left idle before; a downtime period has
\* capacity 0, produces nothing and appends no shipment; and t2_backlog goes
\* down only in a production step and only by the quantity put into the
\* Tier2->Tier1 queue, so backlog above the capacity is still there in the
\* next period.
C28_NoCarryNoExpiry ==
  /\ [](\A i \in Inst : \A k \in 1..Len(hist[i].capacity_log) :
         LET e == hist[i].capacity_log[k]
         IN /\ e.produced <= e.capacity
            /\ e.produced <= e.backlog
            /\ e.downtime => (e.capacity = 0 /\ e.produced = 0)
            /\ e.backlog > e.capacity => e.produced = e.capacity)
  /\ [][\A i \in Inst :
         /\ (pc[i] \in Phases /\ sim'[i].t2_backlog < sim[i].t2_backlog) =>
              /\ pc[i] = "t2_production"
              /\ sim[i].t2_backlog - sim'[i].t2_backlog
                   = SumQty(sim'[i].t2_shipments) - SumQty(sim[i].t2_shipments)
         /\ (pc[i] = "t2_production" /\ pc'[i] = "metrics"
              /\ UniformQ(Raw(sim[i].rng.seed, sim[i].rng.pos))
                   < sim[i].config.t2_downtime_probability) =>
              /\ sim'[i].t2_shipments = sim[i].t2_shipments
              /\ sim'[i].t2_backlog = sim[i].t2_backlog
         /\ (pc[i] = "metrics" /\ pc'[i] = "arrivals") =>
              sim'[i].t2_backlog = sim[i].t2_backlog]_vars

\* One run had a period whose capacity draw exceeded the backlog, then a
\* period where the backlog exceeded a positive capacity draw: only that draw
\* was produced and the rest of the backlog is still waiting.
C28_Witness ==
  \E i \in Inst :
    LET log == hist[i].capacity_log
    IN /\ pc[i] = "metrics"
       /\ \E a \in 1..(Len(log) - 1) : log[a].capacity > log[a].backlog
       /\ log[Len(log)].capacity > 0
       /\ log[Len(log)].backlog > log[Len(log)].capacity
       /\ log[Len(log)].produced = log[Len(log)].capacity
       /\ sim[i].t2_backlog = log[Len(log)].backlog - log[Len(log)].capacity


\* C29: the WIP value recorded for period d is the Tier-1 on-hand inventory
\* plus the total quantity of the shipments in the Tier2->Tier1 queue at the
\* end of period d, the shipment produced by Tier-2 during d included.
C29_WipIsPipeline ==
  \A i \in Inst :
    LET s == sim[i]
        Queue[k \in 0..Len(s.t2_shipments)] ==
          IF k = 0 THEN 0 ELSE Queue[k - 1] + s.t2_shipments[k].qty
    IN (pc[i] \in {"arrivals", "calc"} /\ s.wip_levels # <<>>)
       => s.wip_levels[Len(s.wip_levels)] = s.t1_inventory + Queue[Len(s.t2_shipments)]


\* C30: at every period end of a run started with non-negative inventories
\* the open OEM order list holds only orders with remaining > 0 (an order
\* served in full is gone in the period it reaches zero, a zero-size order is
\* never opened), both shipment queues hold only shipments with qty > 0, and
\* the backlog value recorded for the period is the sum of the remaining
\* quantities of the open orders.
C30_OnlyOpenOrders ==
  \A i \in Inst :
    LET s == sim[i]
        Owed[k \in 0..Len(s.oem_orders)] ==
          IF k = 0 THEN 0 ELSE Owed[k - 1] + s.oem_orders[k].remaining
    IN (/\ s.config.t1_initial_inventory >= 0
        /\ s.config.oem_initial_inventory >= 0
        /\ pc[i] \in {"arrivals", "calc", "returned"}
        /\ s.backlog_levels # <<>>)
       => /\ \A k \in 1..Len(s.oem_orders) : s.oem_orders[k].remaining > 0
          /\ \A k \in 1..Len(s.t1_shipments) : s.t1_shipments[k].qty > 0
          /\ \A k \in 1..Len(s.t2_shipments) : s.t2_shipments[k].qty > 0
          /\ s.backlog_levels[Len(s.backlog_levels)] = Owed[Len(s.oem_orders)]
          /\ \A k \in 1..Len(hist[i].order_log) :
               hist[i].order_log[k].size = 0 =>
                 \A m \in 1..Len(s.oem_orders) :
                   s.oem_orders[m].order_day # hist[i].order_log[k].day

\* The end of a period whose fulfilment loop served an order in full and
\* left another one open, in a run that drew a zero-size OEM order, with
\* shipments in both queues.
C30_Witness ==
  \E i \in Inst :
    /\ pc[i] \in {"arrivals", "calc"}
    /\ sim[i].backlog_levels # <<>>
    /\ sim[i].backlog_levels[Len(sim[i].backlog_levels)] > 0
    /\ hist[i].pass # <<>>
    /\ Len(hist[i].pass[1].after) < Len(hist[i].pass[1].before)
    /\ sim[i].oem_orders # <<>>
    /\ sim[i].t1_shipments # <<>>
    /\ sim[i].t2_shipments # <<>>
    /\ \E k \in 1..Len(hist[i].order_log) : hist[i].order_log[k].size = 0


\* C31: unmet end-customer demand is lost: the demand step of each period
\* serves min(demand, oem_inventory) units, lowers oem_inventory by exactly
\* that and serves nothing of earlier periods' unmet demand; no other step
\* changes the two counters.  fill_rate is total served / total demand of the
\* whole run, and 0 with no division when total demand is 0.
C31_LostSales ==
  /\ [][\A i \in Inst :
         /\ (pc[i] = "demand" /\ pc'[i] = "forecast"
              /\ sim[i].config.oem_initial_inventory >= 0) =>
              LET demand == sim'[i].total_customer_demand - sim[i].total_customer_demand
                  served == IF demand < sim[i].oem_inventory THEN demand
                            ELSE sim[i].oem_inventory
              IN /\ demand >= 0
                 /\ sim'[i].total_customer_fulfilled = sim[i].total_customer_fulfilled + served
                 /\ sim'[i].oem_inventory = sim[i].oem_inventory - served
         /\ (pc[i] \in Phases \ {"demand"} /\ pc'[i] \in Phases) =>
              /\ sim'[i].total_customer_fulfilled = sim[i].total_customer_fulfilled
              /\ sim'[i].total_customer_demand = sim[i].total_customer_demand]_vars
  /\ [](\A i \in Inst :
         pc[i] = "returned" =>
           LET r == results[i][Len(results[i])]
           IN IF sim[i].total_customer_demand = 0
              THEN r.fill_rate.n = 0 /\ r.fill_rate.d > 0
              ELSE /\ r.fill_rate.n = sim[i].total_customer_fulfilled
                   /\ r.fill_rate.d = sim[i].total_customer_demand)

\* A run has returned in which a period left demand unmet and a later period
\* ended with stock at the OEM: the unmet units were not served from it, and
\* the fill rate is strictly between 0 and 1.
C31_Witness ==
  \E i \in Inst :
    LET tr == hist[i].trace
        Unmet(k) == (tr[k].total_customer_demand - tr[k].total_customer_fulfilled)
                    - (IF k = 1 THEN 0
                       ELSE tr[k - 1].total_customer_demand - tr[k - 1].total_customer_fulfilled)
    IN /\ pc[i] = "returned"
       /\ \E k, m \in 1..Len(tr) : k < m /\ Unmet(k) > 0 /\ tr[m].oem_inventory > 0
       /\ results[i][Len(results[i])].fill_rate.n > 0
       /\ results[i][Len(results[i])].fill_rate.n < results[i][Len(results[i])].fill_rate.d


\* C32: in every state of a run (so after every period) total_shipments is
\* the number of entries of lead_times, on_time_shipments is the number of
\* entries that are <= otif_target_days, and the k-th entry is the arrival_day
\* of the k-th shipment created minus the order_day of the OEM order it
\* serves, one entry per partial shipment; the OTIF percentage returned is
\* 100 * on_time_shipments / total_shipments.
C32_OtifBookkeeping ==
  \A i \in Inst :
    LET s == sim[i]
        lt == s.lead_times
        sh == hist[i].shipped
    IN /\ s.total_shipments = Len(lt)
       /\ s.on_time_shipments
            = Cardinality({k \in 1..Len(lt) : lt[k] <= s.config.otif_target_days})
       /\ Len(sh) = Len(lt)
       /\ \A k \in 1..Len(lt) : lt[k] = sh[k].arrival_day - sh[k].order_day
       /\ (pc[i] = "returned" /\ lt # <<>>) =>
            LET r == results[i][Len(results[i])]
            IN r.otif_percentage.n * Len(lt) = 100 * s.on_time_shipments * r.otif_percentage.d

\* One OEM order was served by two partial shipments, giving two lead times;
\* one lead time equals the target and one is above it.
C32_Witness ==
  \E i \in Inst :
    LET lt == sim[i].lead_times
        sh == hist[i].shipped
    IN /\ \E a, b \in 1..Len(sh) : a < b /\ sh[a].order_day = sh[b].order_day
       /\ \E k \in 1..Len(lt) : lt[k] = sim[i].config.otif_target_days
       /\ \E k \in 1..Len(lt) : lt[k] > sim[i].config.otif_target_days
       /\ sim[i].on_time_shipments < sim[i].total_shipments


\* The state both engines keep at the end of a period.
Engine(t) ==
  [current_period |-> t.current_period, rng |-> t.rng,
   t1_inventory |-> t.t1_inventory, oem_inventory |-> t.oem_inventory,
   t1_shipments |-> t.t1_shipments, t2_shipments |-> t.t2_shipments,
   oem_orders |-> t.oem_orders, t2_backlog |-> t.t2_backlog,
   lead_times |-> t.lead_times]

\* The period ends of the two engines agree on the draws consumed, the
\* inventories, t2_backlog, the queues and the open orders.
SameEngineStates ==
  /\ Len(hist[1].trace) = Len(hist[2].trace)
  /\ \A k \in 1..Len(hist[1].trace) : Engine(hist[1].trace[k]) = Engine(hist[2].trace[k])

\* The two results agree on the lead times, the average backlog and OTIF.
SameReportExceptWip ==
  LET r == results[1][1]
      b == results[2][1]
  IN /\ b.lead_times = r.lead_times
     /\ b.avg_backlog = r.mean_backlog
     /\ 100 * b.otif.n * r.otif_percentage.d = r.otif_percentage.n * b.otif.d

\* C33: when a SupplyChainSimulation baseline run and a simulate_baseline
\* call with the same parameters and seed have both returned, their period
\* ends agree on the draws consumed, t1_inventory, oem_inventory, t2_backlog,
\* the queues and the open orders, and they report equal lead_times, equal
\* average backlog, equal average WIP and otif * 100 = otif_percentage.
C33_EnginesEquivalent ==
  (pc[1] = "returned" /\ pc[2] = "returned") =>
     /\ SameEngineStates
     /\ SameReportExceptWip
     /\ results[2][1].avg_wip = results[1][1].mean_wip

\* Everything but the average WIP agrees.
C33_AgreeExceptWip ==
  (pc[1] = "returned" /\ pc[2] = "returned") => SameEngineStates /\ SameReportExceptWip


\* C34: reset() leaves the instance in the state of a freshly constructed
\* instance with the same config and scenario, whatever runs came before
\* (with or without a reset between them), and the run_simulation() that
\* follows returns the result a fresh instance returns.
C34_ResetRestoresInitialState ==
  /\ [][\A i \in Inst :
         (pc[i] \in {"returned", "raised"} /\ pc'[i] = "ready") =>
            sim'[i] = NewSimulation(sim[i].config, sim[i].scenario_name)]_vars
  /\ [](\A i \in Inst :
         (pc[i] = "returned" /\ Len(hist[i].trace) = sim[i].config.num_periods) =>
            results[i][Len(results[i])]
              = CalculateResults(AloneAfter(NewSimulation(sim[i].config, sim[i].scenario_name),
                                            sim[i].config.num_periods)))

\* An instance has returned from a run made after a reset; its earlier run
\* had shipped and had left a backlog, and Tier-2 still owed production when
\* the first run ended.
C34_Witness ==
  \E i \in Inst :
    /\ pc[i] = "returned"
    /\ Len(results[i]) = 2
    /\ Len(hist[i].trace) = sim[i].config.num_periods
    /\ results[i][1].lead_times # <<>>
    /\ results[i][1].mean_backlog.n > 0
    /\ results[i][2] = results[i][1]
    /\ sim[i].t2_backlog > 0
    /\ sim[i].use_forecast


\* C35: in a call of simulate every lead time collected is >= 1 week, and
\* when Tier 2 processes its queue in a week every order in the queue was
\* placed in an earlier week: the week's order is enqueued only after the
\* queue has been processed.
C35_LeadTimeAtLeastOneWeek ==
  weekly.kind = "simulate" =>
    /\ \A k \in 1..Len(weekly.lead_times) : weekly.lead_times[k] >= 1
    /\ weekly.pc \in {"demand", "clear_1", "process"} =>
          \A k \in 1..Len(weekly.queue) : weekly.queue[k].placed_at < weekly.week
    /\ (weekly.last.op = "process" /\ weekly.pc = "clear_2") =>
          \A k \in 1..Len(weekly.last.returned[2]) : weekly.last.returned[2][k] >= 1

\* A call has returned with an order completed the week after it was placed
\* and an order completed later than that.
C35_Witness ==
  /\ weekly.kind = "simulate"
  /\ weekly.pc = "returned"
  /\ \E k \in 1..Len(weekly.lead_times) : weekly.lead_times[k] = 1
  /\ \E k \in 1..Len(weekly.lead_times) : weekly.lead_times[k] >= 2


\* The queue on which process has just been called, as it is after the call.
QueueNow == IF weekly.kind = "queue" THEN weekly.orders ELSE weekly.queue

\* The current_time of that call.
TimeNow == IF weekly.kind = "queue" THEN weekly.current_time ELSE weekly.week

\* C36: right after a call process(capacity, t), on a queue used directly or
\* inside simulate: the total shipped is min(capacity, total_on_order()
\* before the call); total_on_order() has decreased by exactly that; the
\* orders removed are the first k of the queue and the rest is unchanged
\* except the new head, which may have a smaller quantity, still > 0; and the
\* lead times returned are t - placed_at of the k orders removed, in queue
\* order, with none for an order only partly served.
C36_ProcessIsFifo ==
  (weekly.kind \in {"queue", "simulate"} /\ weekly.last.op = "process") =>
    LET before == weekly.last.before
        after == QueueNow
        capacity == weekly.last.arg
        total_shipped == weekly.last.returned[1]
        lead_times == weekly.last.returned[2]
        k == Len(before) - Len(after)
    IN /\ total_shipped = Min(capacity, TotalOnOrder(before))
       /\ TotalOnOrder(after) = TotalOnOrder(before) - total_shipped
       /\ k >= 0
       /\ \A j \in 2..Len(after) : after[j] = before[k + j]
       /\ after # <<>> =>
            /\ after[1].placed_at = before[k + 1].placed_at
            /\ after[1].quantity > 0
            /\ after[1].quantity <= before[k + 1].quantity
       /\ Len(lead_times) = k
       /\ \A j \in 1..k : lead_times[j] = TimeNow - before[j].placed_at

\* A call on a queue of three orders completed the first, served the second
\* in part and left the third untouched.
C36_Witness ==
  /\ weekly.kind = "queue"
  /\ weekly.last.op = "process"
  /\ Len(weekly.last.before) = 3
  /\ Len(weekly.orders) = 2
  /\ weekly.orders[1].quantity < weekly.last.before[2].quantity
  /\ weekly.last.returned[2] # <<0>>
  /\ Len(weekly.last.returned[2]) = 1
  /\ weekly.last.before[1].placed_at < weekly.last.before[2].placed_at


\* The SupplyNode in use: the caller's node, or tier1 of simulate.
NodeNow == IF weekly.kind = "node" THEN weekly.node ELSE weekly.tier1

\* C37: a SupplyNode constructed with inventory >= 0 and used with
\* non-negative arguments always has inventory >= 0 and backlog >= 0; ship(d)
\* returns min(inventory, d), takes it from the inventory and adds d minus it
\* to the backlog; clear_backlog() lowers inventory and backlog by the same
\* amount and leaves one of them 0; and every week of simulate ends, and is
\* recorded, with Tier 1 holding no stock or no backlog.
C37_NodeNeverNegative ==
  weekly.kind \in {"node", "simulate"} =>
    LET node == NodeNow
        last == weekly.last
    IN /\ node.inventory >= 0
       /\ node.backlog >= 0
       /\ last.op = "ship" =>
            /\ last.returned = Min(last.before.inventory, last.arg)
            /\ node.inventory = last.before.inventory - last.returned
            /\ node.backlog = last.before.backlog + (last.arg - last.returned)
       /\ last.op = "clear_backlog" =>
            /\ last.before.inventory - node.inventory = last.returned
            /\ last.before.backlog - node.backlog = last.returned
            /\ Min(node.inventory, node.backlog) = 0
       /\ weekly.kind = "simulate" =>
            /\ weekly.pc \in {"order", "record", "returned"} =>
                  Min(node.inventory, node.backlog) = 0
            /\ \A k \in 1..Len(weekly.kpis.tier1_inventory) :
                  Min(weekly.kpis.tier1_inventory[k], weekly.kpis.tier1_backlog[k]) = 0

\* A call of simulate has returned; one of its weeks ended with a backlog at
\* Tier 1 and a later one with stock.
C37_Witness ==
  /\ weekly.kind = "simulate"
  /\ weekly.pc = "returned"
  /\ \E a, b \in 1..Len(weekly.kpis.tier1_backlog) :
        /\ a < b
        /\ weekly.kpis.tier1_backlog[a] > 0
        /\ weekly.kpis.tier1_inventory[b] > 0

\* C38: at the end of every week of simulate, once the order step is done,
\* tier1.inventory - tier1.backlog + queue.total_on_order() >= base_stock,
\* with equality when an order was placed that week; the week's order is in
\* the queue exactly when its quantity is > 0, and no order in the queue ever
\* has quantity 0.
C38_BaseStockPolicy ==
  weekly.kind = "simulate" =>
    LET position == weekly.tier1.inventory - weekly.tier1.backlog + TotalOnOrder(weekly.queue)
    IN /\ \A k \in 1..Len(weekly.queue) : weekly.queue[k].quantity > 0
       /\ weekly.pc = "record" =>
            /\ position >= weekly.base_stock
            /\ weekly.order_qty > 0 => position = weekly.base_stock
            /\ weekly.order_qty > 0 <=>
                  /\ Len(weekly.queue) = Len(weekly.last.before) + 1
                  /\ weekly.queue[Len(weekly.queue)]
                       = [quantity |-> weekly.order_qty, placed_at |-> weekly.week]
            /\ weekly.order_qty = 0 => weekly.queue = weekly.last.before
       /\ \A k \in 1..Len(weekly.kpis.queue_wip) :
            weekly.kpis.tier1_inventory[k] - weekly.kpis.tier1_backlog[k]
              + weekly.kpis.queue_wip[k] >= weekly.base_stock

\* A week in which no order was placed (no demand) follows a week in which
\* one was; Tier 2 has shipped this week and the queue still holds an order.
C38_Witness ==
  /\ weekly.kind = "simulate"
  /\ weekly.pc = "record"
  /\ weekly.order_qty = 0
  /\ weekly.week > 0
  /\ weekly.queue # <<>>
  /\ weekly.kpis.oem_demand[weekly.week] > 0
  /\ weekly.shipped > 0

=============================================================================
